---- MODULE Spec2Model ----
(***************************************************************************)
(* Tilely: the project store (src/lib/store.ts), the render-job lifecycle  *)
(* of queueRender, and the three exporters (still image, interactive       *)
(* video, batch video) as state machines.                                  *)
(*                                                                         *)
(* Optional values of the source (T | undefined) are sequences of length   *)
(* at most one: <<>> is undefined, <<v>> is v.  Times are whole numbers of *)
(* an abstract unit (the slider step).                                     *)
(***************************************************************************)
EXTENDS Integers, Sequences, FiniteSets, TLC

VARIABLES
  project,      \* store: state.project
  history,      \* store: state.history
  future,       \* store: state.future
  activeCell,   \* store: state.activeCell (optional; nothing here selects a cell)
  exportSettings, \* store: state.exportSettings
  renderJob,    \* store: state.renderJob (optional)
  calls,        \* queueRender invocations: call id -> its position and base job
  createdUrls,  \* object URLs handed out by URL.createObjectURL
  revokedUrls,  \* object URLs passed to URL.revokeObjectURL
  path,         \* which exporter the export run executes
  still,        \* the run of exportProjectToImage
  mp4,          \* the run of exportProjectToMp4 (interactive path)
  node,         \* the run of exportProjectToMp4Node (batch path)
  cli,          \* the run of the script generate-video-tile.ts
  calc,         \* one evaluation of a pure function: its arguments and result
  loop,         \* the capture set-up and render loop of exportProjectToMp4
  file,         \* the JSON file written by saveAsFile (optional)
  probe         \* one run of detectViaFrameCallback on a video element

vars == <<project, history, future, activeCell, exportSettings, renderJob, calls,
          createdUrls, revokedUrls, path, still, mp4, node, cli, calc, loop,
          file, probe>>

storeVars == <<project, history, future, activeCell, exportSettings>>
renderVars == <<renderJob, calls, createdUrls, revokedUrls>>
exportVars == <<path, still, mp4, node>>
calcVars == <<cli, calc, loop, file, probe>>

----------------------------------------------------------------------------
(* Optional values and small helpers *)

None == <<>>

Some(v) == <<v>>

IsSome(opt) == opt # <<>>

Get(opt) == opt[1]

OrElse(opt, default) == IF opt = <<>> THEN default ELSE opt[1]

Min2(a, b) == IF a <= b THEN a ELSE b

Max2(a, b) == IF a >= b THEN a ELSE b

Range(s) == {s[i] : i \in 1..Len(s)}

clamp(value, min, max) == Min2(Max2(value, min), max)

\* Array.prototype.findIndex over the outcomes of the test on each element
\* (1-based; 0 when no element passes)
FindIndex(passes) ==
  IF \E i \in 1..Len(passes) : passes[i]
  THEN CHOOSE i \in 1..Len(passes) : passes[i] /\ \A j \in 1..(i - 1) : ~passes[j]
  ELSE 0

----------------------------------------------------------------------------
(* Strings are sequences of characters: split, Number and number formatting *)

Digits == {"4", "2", "1", "0"}

DigitValue(char) ==
  IF char = "4" THEN 4 ELSE IF char = "2" THEN 2 ELSE IF char = "1" THEN 1 ELSE 0

\* String.prototype.split(sep): the pieces between the separators
RECURSIVE split(_, _)
split(str, sep) ==
  LET at == FindIndex([i \in 1..Len(str) |-> str[i] = sep])
  IN IF at = 0
     THEN <<str>>
     ELSE <<SubSeq(str, 1, at - 1)>> \o split(SubSeq(str, at + 1, Len(str)), sep)

RECURSIVE DecimalValue(_)
DecimalValue(digits) ==
  IF digits = <<>>
  THEN 0
  ELSE 10 * DecimalValue(SubSeq(digits, 1, Len(digits) - 1)) + DigitValue(digits[Len(digits)])

AllDigits(str) == \A i \in 1..Len(str) : str[i] \in Digits

\* Number(piece): None is NaN; the empty string is 0; an absent piece is NaN
Number(piece) ==
  IF piece = <<>> THEN Some(0)
  ELSE IF AllDigits(piece) THEN Some(DecimalValue(piece))
  ELSE IF piece[1] = "-" /\ Len(piece) > 1 /\ AllDigits(Tail(piece))
       THEN Some(0 - DecimalValue(Tail(piece)))
  ELSE None

\* the decimal digits, for `${n}` of a whole number n >= 0
DigitChars == <<"0", "1", "2", "3", "4", "5", "6", "7", "8", "9">>

RECURSIVE FormatNumber(_)
FormatNumber(n) ==
  IF n < 10 THEN <<DigitChars[n + 1]>>
  ELSE FormatNumber(n \div 10) \o <<DigitChars[(n % 10) + 1]>>

\* String.prototype.trim on the space character
RECURSIVE trim(_)
trim(str) ==
  IF str # <<>> /\ Head(str) = " " THEN trim(Tail(str))
  ELSE IF str # <<>> /\ str[Len(str)] = " " THEN trim(SubSeq(str, 1, Len(str) - 1))
  ELSE str

----------------------------------------------------------------------------
(* Bounds of the model *)

\* edits are explored while the undo history is shorter than this
MaxHistory == 4

\* the default duration of a track whose asset has none
DefaultTrackDuration == 10

\* the (rows, cols) of layoutPresets[0]
FirstPresetRows == 2

FirstPresetCols == 2

\* The importable files: id, type and duration as fileToAsset reports them.
AssetCatalog ==
  { [id |-> "long",  type |-> "video", duration |-> Some(8)],
    [id |-> "short", type |-> "video", duration |-> Some(3)],
    [id |-> "pic",   type |-> "image", duration |-> None] }

\* The batches handed to addAssets
AssetBatches ==
  { << [id |-> "long",  type |-> "video", duration |-> Some(8)],
       [id |-> "short", type |-> "video", duration |-> Some(3)],
       [id |-> "pic",   type |-> "image", duration |-> None] >> }

AssetIds == {a.id : a \in AssetCatalog}

\* The (cellIndex, assetId) pairs handed to assignAssetToCell
AssignInputs == { <<1, "long">>, <<1, "short">>, <<3, "pic">>, <<3, "short">> }

\* The (rows, cols) handed to applyLayoutPreset (all are layoutPresets)
LayoutInputs == { <<2, 2>>, <<1, 2>> }

\* The pointer positions the trim slider is dragged to
TrimPositions == {5}

----------------------------------------------------------------------------
(* The store: src/lib/store.ts *)

\* the cells numbered along the columns instead of along the rows
GridCells_columnMajor(rows, cols) ==
  [index \in 1..(rows * cols) |->
     [row |-> (index - 1) % rows, col |-> (index - 1) \div rows]]

GridCells(rows, cols) ==
  [index \in 1..(rows * cols) |->
     [row |-> (index - 1) \div cols, col |-> (index - 1) % cols]]

\* exportSettings.aspectRatio of a store that exports with the project's ratio
ProjectAspect == <<"p", "r", "o", "j", "e", "c", "t">>

DEFAULT_EXPORT_SETTINGS == [aspectRatio |-> ProjectAspect]

createInitialProject ==
  [ aspectRatio |-> <<"1", ":", "1">>,
    assets |-> <<>>,
    grid   |-> [rows  |-> FirstPresetRows,
                cols  |-> FirstPresetCols,
                cells |-> GridCells(FirstPresetRows, FirstPresetCols)],
    tracks |-> <<>> ]

\* uuid(): an id no track of any stored project carries
StoredProjects == {project} \cup Range(history) \cup Range(future)

UsedTrackIds == UNION {{t.id : t \in Range(p.tracks)} : p \in StoredProjects}

uuid == CHOOSE n \in 1..(Cardinality(UsedTrackIds) + 1) : n \notin UsedTrackIds

createTrackForAsset(asset, cellIndex) ==
  LET duration == OrElse(asset.duration, DefaultTrackDuration)
  IN [ id        |-> uuid,
       assetId   |-> asset.id,
       cellIndex |-> cellIndex,
       in        |-> 0,
       out       |-> duration,
       duration  |-> duration ]

\* set((state) => ({project, history: [...state.history, state.project], future: []}))
Commit(next) ==
  /\ project' = next
  /\ history' = Append(history, project)
  /\ future' = <<>>

CanEdit == Len(history) < MaxHistory

addAssets(assets) ==
  /\ CanEdit
  /\ \A i \in 1..Len(assets) : assets[i].id \notin {a.id : a \in Range(project.assets)}
  /\ Commit([project EXCEPT !.assets = project.assets \o assets])
  /\ UNCHANGED <<activeCell, exportSettings, renderVars, exportVars, calcVars>>

\* the branch of assignAssetToCell that updates the track already in the cell
ReassignTrack(existingTrack, asset) ==
  LET duration == OrElse(asset.duration, existingTrack.duration)
  IN [existingTrack EXCEPT
        !.assetId  = asset.id,
        !.duration = duration,
        !.out      = clamp(existingTrack.out, 0, duration)]

assignAssetToCell(cellIndex, assetId) ==
  /\ CanEdit
  /\ LET found == FindIndex([i \in 1..Len(project.assets) |-> project.assets[i].id = assetId])
         existing == FindIndex([i \in 1..Len(project.tracks) |-> project.tracks[i].cellIndex = cellIndex])
     IN IF found = 0
        THEN UNCHANGED <<project, history, future>>
        ELSE IF existing # 0
             THEN Commit([project EXCEPT !.tracks[existing] =
                            ReassignTrack(project.tracks[existing], project.assets[found])])
             ELSE Commit([project EXCEPT !.tracks =
                            Append(project.tracks,
                                   createTrackForAsset(project.assets[found], cellIndex))])
  /\ UNCHANGED <<activeCell, exportSettings, renderVars, exportVars, calcVars>>

\* The trim Slider of the timeline: value = [clip.in, min(clip.out, clip.duration)],
\* min = 0, max = clip.duration.  Slider.updateValueAtIndex moves one thumb.
clampToStep(raw, min, max) == clamp(raw, min, max)

updateValueAtIndex(values, index, nextValue, min, max) ==
  LET snapped == clampToStep(nextValue, min, max)
  IN IF index = 1
     THEN <<Min2(snapped, values[2]), values[2]>>
     ELSE <<values[1], Max2(snapped, values[1])>>

\* onValueChange of the trim Slider: the updater handed to updateTrack
TrimUpdater(track, clip, values) ==
  LET start == values[1]
      end   == values[2]
  IN [track EXCEPT
        !.in  = Max2(0, Min2(start, clip.duration)),
        !.out = Max2(start, Min2(end, clip.duration))]

\* updater is a function on the tracks of the project
updateTrack(trackId, updater) ==
  /\ CanEdit
  /\ Commit([project EXCEPT !.tracks =
       [i \in 1..Len(project.tracks) |->
          IF project.tracks[i].id = trackId
          THEN updater[project.tracks[i]]
          ELSE project.tracks[i]]])
  /\ UNCHANGED <<activeCell, exportSettings, renderVars, exportVars, calcVars>>

\* a drag of thumb `index` of the trim slider of clip `i` to position `raw`
TrimSliderChange(i, index, raw) ==
  LET clip   == project.tracks[i]
      value  == <<clip.in, Min2(clip.out, clip.duration)>>
      values == updateValueAtIndex(value, index, raw, 0, clip.duration)
  IN updateTrack(clip.id, [track \in Range(project.tracks) |-> TrimUpdater(track, clip, values)])

removeTrack(trackId) ==
  /\ CanEdit
  /\ Commit([project EXCEPT !.tracks =
       SelectSeq(project.tracks, LAMBDA track : track.id # trackId)])
  /\ UNCHANGED <<activeCell, exportSettings, renderVars, exportVars, calcVars>>

\* .map((track) => ({...track, cellIndex: Math.min(track.cellIndex, rows * cols - 1)}))
RemapTracks(tracks, rows, cols) ==
  [i \in 1..Len(tracks) |->
     [tracks[i] EXCEPT !.cellIndex = Min2(tracks[i].cellIndex, rows * cols - 1)]]

\* .filter((track, index, array) =>
\*    array.findIndex((item) => item.cellIndex === track.cellIndex) === index)
RECURSIVE KeepFirstPerCell(_, _)
KeepFirstPerCell(array, index) ==
  IF index > Len(array) THEN <<>>
  ELSE IF FindIndex([i \in 1..Len(array) |-> array[i].cellIndex = array[index].cellIndex]) = index
       THEN <<array[index]>> \o KeepFirstPerCell(array, index + 1)
       ELSE KeepFirstPerCell(array, index + 1)

\* the remapped tracks kept without the first-per-cell filter
DedupeTracks_unfiltered(array) == array

DedupeTracks(array) == KeepFirstPerCell(array, 1)

applyLayoutPreset(rows, cols) ==
  /\ CanEdit
  /\ Commit([project EXCEPT
       !.grid   = [rows |-> rows, cols |-> cols, cells |-> GridCells(rows, cols)],
       !.tracks = DedupeTracks(RemapTracks(project.tracks, rows, cols))])
  /\ activeCell' = IF IsSome(activeCell)
                   THEN Some(Min2(Get(activeCell), rows * cols - 1))
                   ELSE activeCell
  /\ UNCHANGED <<exportSettings, renderVars, exportVars, calcVars>>

\* undo that does not put the project it leaves onto the redo stack
undo_dropsCurrent ==
  /\ IF Len(history) = 0
     THEN UNCHANGED <<project, history, future>>
     ELSE /\ project' = history[Len(history)]
          /\ history' = SubSeq(history, 1, Len(history) - 1)
          /\ future' = future
  /\ UNCHANGED <<activeCell, exportSettings, renderVars, exportVars, calcVars>>

undo ==
  /\ IF Len(history) = 0
     THEN UNCHANGED <<project, history, future>>
     ELSE /\ project' = history[Len(history)]
          /\ history' = SubSeq(history, 1, Len(history) - 1)
          /\ future' = <<project>> \o future
  /\ UNCHANGED <<activeCell, exportSettings, renderVars, exportVars, calcVars>>

redo ==
  /\ IF Len(future) = 0
     THEN UNCHANGED <<project, history, future>>
     ELSE /\ project' = Head(future)
          /\ future' = Tail(future)
          /\ history' = Append(history, project)
  /\ UNCHANGED <<activeCell, exportSettings, renderVars, exportVars, calcVars>>

----------------------------------------------------------------------------
(* Initial values of the render and export state *)

RenderIdle ==
  /\ renderJob = None
  /\ calls = <<>>
  /\ createdUrls = {}
  /\ revokedUrls = {}

\* exportProjectToImage not yet called
StillIdle ==
  [pc |-> "idle", loads |-> <<>>, loadedImages |-> {}, drawn |-> <<>>, reason |-> "none"]

\* exportProjectToMp4 not yet called
Mp4Idle ==
  [pc |-> "idle", media |-> <<>>, videos |-> <<>>, recorder |-> "none",
   recording |-> "pending", framesRendered |-> 0, drawn |-> <<>>, reason |-> "none"]

\* exportProjectToMp4Node not yet called
NodeIdle ==
  [pc |-> "idle", cells |-> {}, probes |-> <<>>, tmpDir |-> "none",
   encoder |-> "none", outcome |-> "none", reason |-> "none"]

ExportIdle ==
  /\ path = "none"
  /\ still = StillIdle
  /\ mp4 = Mp4Idle
  /\ node = NodeIdle

StoreInit ==
  /\ project = createInitialProject
  /\ history = <<>>
  /\ future = <<>>
  /\ activeCell = None
  /\ exportSettings = DEFAULT_EXPORT_SETTINGS

----------------------------------------------------------------------------
(* Spec: the editing operations of the store *)

\* the script has not run; nothing is being evaluated
CalcIdle ==
  /\ cli = [pc |-> "idle"]
  /\ calc = [op |-> "none"]
  /\ loop = [pc |-> "none"]
  /\ file = None
  /\ probe = [pc |-> "none"]

Init == StoreInit /\ RenderIdle /\ ExportIdle /\ CalcIdle

Next ==
  \/ \E batch \in AssetBatches : addAssets(batch)
  \/ \E input \in AssignInputs : assignAssetToCell(input[1], input[2])
  \/ \E i \in 1..Len(project.tracks), index \in {1, 2}, raw \in TrimPositions :
       TrimSliderChange(i, index, raw)
  \/ \E i \in 1..Len(project.tracks) : removeTrack(project.tracks[i].id)
  \/ \E layout \in LayoutInputs : applyLayoutPreset(layout[1], layout[2])
  \/ undo
  \/ redo

Spec == Init /\ [][Next]_vars

----------------------------------------------------------------------------
(* saveAsFile and hydrateFromJson, and SpecSave *)

\* JSON.stringify of an asset: a member whose value is undefined is left out
StringifyAsset(asset) ==
  IF IsSome(asset.duration)
  THEN [id |-> asset.id, type |-> asset.type, duration |-> Get(asset.duration)]
  ELSE [id |-> asset.id, type |-> asset.type]

\* the asset JSON.parse builds from a member list: a missing member reads as undefined
ParseAsset_zeroDuration(member) ==
  [ id |-> member.id, type |-> member.type,
    duration |-> IF "duration" \in DOMAIN member THEN Some(member.duration) ELSE Some(0) ]

ParseAsset(member) ==
  [ id |-> member.id, type |-> member.type,
    duration |-> IF "duration" \in DOMAIN member THEN Some(member.duration) ELSE None ]

\* JSON.stringify(project, null, 2): the numbers of a project are finite and are
\* written as they are
Stringify(p) ==
  [ aspectRatio |-> p.aspectRatio,
    assets |-> [i \in 1..Len(p.assets) |-> StringifyAsset(p.assets[i])],
    grid   |-> p.grid,
    tracks |-> p.tracks ]

\* JSON.parse(json) as Project
Parse(json) ==
  [ aspectRatio |-> json.aspectRatio,
    assets |-> [i \in 1..Len(json.assets) |-> ParseAsset(json.assets[i])],
    grid   |-> json.grid,
    tracks |-> json.tracks ]

\* the text of a file: one JSON.parse reads, with the value it denotes, or one
\* it throws on
JsonText(value) == [valid |-> TRUE, value |-> value]

Malformed ==
  [valid |-> FALSE, value |-> [aspectRatio |-> <<>>, assets |-> <<>>, grid |-> <<>>, tracks |-> <<>>]]

saveAsFile ==
  /\ file' = Some(JsonText(Stringify(project)))
  /\ UNCHANGED <<cli, calc, loop, probe, storeVars, renderVars, exportVars>>

hydrateFromJson(json) ==
  /\ IF ~json.valid
     THEN UNCHANGED <<project, history, future>>
     ELSE /\ project' = Parse(json.value)
          /\ history' = <<>>
          /\ future' = <<>>
  /\ UNCHANGED <<activeCell, exportSettings, renderVars, exportVars, calcVars>>

\* the texts handed to hydrateFromJson: the file saved last, or one that does not parse
JsonInputs == (IF IsSome(file) THEN {Get(file)} ELSE {}) \cup {Malformed}

\* the (cellIndex, assetId) pairs assigned between saving and loading
SaveAssignInputs == { <<1, "long">>, <<3, "pic">> }

NextSave ==
  \/ \E batch \in AssetBatches : addAssets(batch)
  \/ \E input \in SaveAssignInputs : assignAssetToCell(input[1], input[2])
  \/ \E i \in 1..Len(project.tracks) : removeTrack(project.tracks[i].id)
  \/ saveAsFile
  \/ \E json \in JsonInputs : hydrateFromJson(json)

SpecSave == Init /\ [][NextSave]_vars

----------------------------------------------------------------------------
(* SpecRender: queueRender, its exports in flight, and updateRenderProgress *)

\* queueRender invocations explored
MaxCalls == 3

\* placeholder object URLs the progress effect of EditorShell may create
MaxPlaceholders == 1

\* queueRender(presetId, target) as the top bar calls it
PresetInputs == {"video-mp4", "still-png"}

TargetInputs == {"browser", "server"}

\* getRenderMeta(presetId).extension
getRenderMeta(presetId) == IF presetId = "video-mp4" THEN "mp4" ELSE "png"

\* the extension exportProjectToMp4 may report (pickMediaType)
Mp4Extensions == {"mp4", "webm"}

baseJob(id, presetId, target) ==
  [ id            |-> id,
    presetId      |-> presetId,
    target        |-> target,
    progress      |-> 0,
    status        |-> IF target = "browser" THEN "processing" ELSE "queued",
    fileExtension |-> getRenderMeta(presetId),
    outputUrl     |-> None ]

\* renderJob?.outputUrl
CurrentOutputUrl == IF IsSome(renderJob) THEN Get(renderJob).outputUrl ELSE None

\* The values exportSettings.aspectRatio is set to
ExportAspects == {ProjectAspect, <<"0", "4", ":", "2">>, <<"4", ":", "0">>}

\* updateExportSettings with an updater that sets aspectRatio; the settings are
\* explored as chosen before the first export is queued
updateExportSettings(aspectRatio) ==
  /\ calls = <<>>
  /\ exportSettings' = [exportSettings EXCEPT !.aspectRatio = aspectRatio]
  /\ UNCHANGED <<project, history, future, activeCell, renderVars, exportVars, calcVars>>

\* A reference to a project object: the object the store holds, or a copy
\* nothing else refers to.  cloneProject returns a copy.
cloneProject_alias(p) == [object |-> "store", value |-> p]

cloneProject(p) == [object |-> "copy", value |-> p]

\* the aspect ratio queueRender writes into its project, if it writes one
AspectOverride(settings) ==
  LET aspectSelection == IF trim(settings.aspectRatio) # <<>> THEN trim(settings.aspectRatio)
                         ELSE ProjectAspect
      pieces == split(aspectSelection, ":")
      ratioW == Number(pieces[1])
      ratioH == IF Len(pieces) >= 2 THEN Number(pieces[2]) ELSE None
  IN IF aspectSelection # ProjectAspect
        /\ IsSome(ratioW) /\ IsSome(ratioH) /\ Get(ratioW) > 0 /\ Get(ratioH) > 0
     THEN Some(FormatNumber(Get(ratioW)) \o <<":">> \o FormatNumber(Get(ratioH)))
     ELSE None

\* queueRender up to its first await: the project is cloned, the base job
\* replaces the stored job, the previous output URL is revoked, and for the
\* browser target the aspect ratio of the export settings is written into the
\* project queueRender holds and the export starts on it.
QueueRenderStart(presetId, target) ==
  /\ Len(calls) < MaxCalls
  /\ LET id   == Len(calls) + 1
         job  == baseJob(id, presetId, target)
         prev == CurrentOutputUrl
         held == cloneProject(project)
         override == IF target = "browser" THEN AspectOverride(exportSettings) ELSE None
         written == IF IsSome(override)
                    THEN [held.value EXCEPT !.aspectRatio = Get(override)]
                    ELSE held.value
     IN /\ revokedUrls' = IF IsSome(prev) THEN revokedUrls \cup {Get(prev)} ELSE revokedUrls
        /\ project' = IF held.object = "store" THEN written ELSE project
        /\ IF target # "browser"
           THEN /\ renderJob' = Some(job)
                /\ calls' = Append(calls, [pc |-> "returned", job |-> job, project |-> written])
           ELSE /\ renderJob' = Some([job EXCEPT
                       !.status   = "processing",
                       !.progress = IF job.fileExtension = "mp4" THEN 45 ELSE 20])
                /\ calls' = Append(calls, [pc |-> "exporting", job |-> job, project |-> written])
  /\ UNCHANGED <<createdUrls, history, future, activeCell, exportSettings, exportVars, calcVars>>

\* the awaited export resolved: createObjectURL, then set({renderJob: finalJob})
ExportResolved(call, extension) ==
  /\ calls[call].pc = "exporting"
  /\ LET objectUrl == <<"job", call>>
     IN /\ createdUrls' = createdUrls \cup {objectUrl}
        /\ renderJob' = Some([calls[call].job EXCEPT
                                !.fileExtension = extension,
                                !.status        = "succeeded",
                                !.progress      = 100,
                                !.outputUrl     = Some(objectUrl)])
  /\ calls' = [calls EXCEPT ![call].pc = "resolved"]
  /\ UNCHANGED <<revokedUrls, storeVars, exportVars, calcVars>>

\* the awaited export rejected: the catch block
ExportRejected(call) ==
  /\ calls[call].pc = "exporting"
  /\ renderJob' = Some([calls[call].job EXCEPT !.status = "failed", !.progress = 0])
  /\ calls' = [calls EXCEPT ![call].pc = "rejected"]
  /\ UNCHANGED <<createdUrls, revokedUrls, storeVars, exportVars, calcVars>>

updateRenderProgress(progress, status, outputUrl) ==
  /\ LET previousUrl == CurrentOutputUrl
     IN revokedUrls' =
          IF IsSome(previousUrl) /\ IsSome(outputUrl) /\ previousUrl # outputUrl
          THEN revokedUrls \cup {Get(previousUrl)}
          ELSE revokedUrls
  /\ renderJob' =
       IF IsSome(renderJob)
       THEN Some([Get(renderJob) EXCEPT
                    !.progress  = progress,
                    !.status    = status,
                    !.outputUrl = IF IsSome(outputUrl) THEN outputUrl
                                  ELSE Get(renderJob).outputUrl])
       ELSE renderJob

Placeholders == {u \in createdUrls : u[1] = "placeholder"}

\* the effect of EditorShell runs only for a queued or processing job
EffectActive ==
  /\ IsSome(renderJob)
  /\ Get(renderJob).status \in {"queued", "processing"}

\* the body of the effect: updateRenderProgress(progress, "processing")
ProgressEffectStart ==
  /\ EffectActive
  /\ updateRenderProgress(Get(renderJob).progress, "processing", None)
  /\ UNCHANGED <<calls, createdUrls, storeVars, exportVars, calcVars>>

\* The interval callback of the effect: progress advances by 12 from the
\* job's progress; at 100 it reports success with a placeholder URL.
ProgressTick ==
  /\ EffectActive
  /\ LET progress == Min2(100, Get(renderJob).progress + 12)
     IN IF progress >= 100
        THEN /\ Cardinality(Placeholders) < MaxPlaceholders
             /\ LET url == <<"placeholder", Cardinality(Placeholders) + 1>>
                IN /\ createdUrls' = createdUrls \cup {url}
                   /\ updateRenderProgress(100, "succeeded", Some(url))
        ELSE /\ createdUrls' = createdUrls
             /\ updateRenderProgress(progress, "processing", None)
  /\ UNCHANGED <<calls, storeVars, exportVars, calcVars>>

\* window.setTimeout(() => URL.revokeObjectURL(url), 10_000)
PlaceholderTimeout(url) ==
  /\ url \in Placeholders \ revokedUrls
  /\ revokedUrls' = revokedUrls \cup {url}
  /\ UNCHANGED <<renderJob, calls, createdUrls, storeVars, exportVars, calcVars>>

NextRender ==
  \/ \E aspectRatio \in ExportAspects : updateExportSettings(aspectRatio)
  \/ \E presetId \in PresetInputs, target \in TargetInputs : QueueRenderStart(presetId, target)
  \/ \E call \in 1..Len(calls) :
       \E extension \in IF calls[call].job.fileExtension = "mp4" THEN Mp4Extensions ELSE {"png"} :
         ExportResolved(call, extension)
  \/ \E call \in 1..Len(calls) : ExportRejected(call)
  \/ ProgressEffectStart
  \/ ProgressTick
  \/ \E url \in createdUrls : PlaceholderTimeout(url)

SpecRender == Init /\ [][NextRender]_vars

----------------------------------------------------------------------------
(* SpecExport: one run of an exporter on a project *)

\* The assets of the exported projects
ExportAssets ==
  << [id |-> "clip", type |-> "video", duration |-> Some(8)],
     [id |-> "pic",  type |-> "image", duration |-> None],
     [id |-> "tone", type |-> "audio", duration |-> Some(8)] >>

\* What a cell of an exported project holds: no track, a track of one of the
\* assets, or a track whose assetId matches no asset
CellKinds == {"empty", "clip", "pic", "tone", "dangling"}

\* the exported grids are one row of this many cells
ExportCells == 2

ExportCellIndexes == 0..(ExportCells - 1)

ExportTrack(cellIndex, assetId) ==
  [ id        |-> cellIndex + 1,
    assetId   |-> assetId,
    cellIndex |-> cellIndex,
    in        |-> 0,
    out       |-> 8,
    duration  |-> 8 ]

RECURSIVE ExportTracks(_, _)
ExportTracks(kinds, cellIndex) ==
  IF cellIndex \notin DOMAIN kinds
  THEN <<>>
  ELSE IF kinds[cellIndex] = "empty"
       THEN ExportTracks(kinds, cellIndex + 1)
       ELSE <<ExportTrack(cellIndex, kinds[cellIndex])>> \o ExportTracks(kinds, cellIndex + 1)

\* The projects handed to the exporters (hydrateFromJson stores any project)
ExportProjects ==
  { [ assets |-> ExportAssets,
      grid   |-> [rows  |-> 1,
                  cols  |-> ExportCells,
                  cells |-> GridCells(1, ExportCells)],
      tracks |-> ExportTracks(kinds, 0) ] : kinds \in [ExportCellIndexes -> CellKinds] }

ExportPaths == {"still", "mp4", "node"}

CellIndexes(p) == 0..(Len(p.grid.cells) - 1)

\* new Map(project.assets.map((asset) => [asset.id, asset])).get(assetId)
assetById(p, assetId) ==
  LET matches == {i \in 1..Len(p.assets) : p.assets[i].id = assetId}
  IN IF matches = {}
     THEN None
     ELSE Some(p.assets[CHOOSE i \in matches : \A j \in matches : j <= i])

\* getTrackByCell(tracks).get(index): the first track of the cell
getTrackByCell(tracks, index) ==
  LET first == FindIndex([i \in 1..Len(tracks) |-> tracks[i].cellIndex = index])
  IN IF first = 0 THEN None ELSE Some(tracks[first])

\* the asset a track resolves to
AssetOfTrack_firstAsset(p, track) == Some(p.assets[1])

AssetOfTrack(p, track) == assetById(p, track.assetId)

\* const asset = track ? assetById.get(track.assetId) : undefined
CellAsset(p, index) ==
  LET track == getTrackByCell(p.tracks, index)
  IN IF IsSome(track) THEN AssetOfTrack(p, Get(track)) ELSE None

IsPicture(asset) == asset.type \in {"image", "logo"}

----------------------------------------------------------------------------
(* exportProjectToImage: src/lib/exporter.ts *)

\* the tracks whose asset is preloaded
PreloadedTracks(p) ==
  {t \in 1..Len(p.tracks) :
     LET asset == AssetOfTrack(p, p.tracks[t])
     IN IsSome(asset) /\ IsPicture(Get(asset))}

\* what the cell loop draws into a cell
StillCell(p, index, loadedImages) ==
  LET asset == CellAsset(p, index)
  IN IF IsSome(asset)
     THEN IF IsPicture(Get(asset)) /\ Get(asset).id \in loadedImages
          THEN "visual"
          ELSE IF Get(asset).type = "video" THEN "placeholder-video"
          ELSE IF Get(asset).type = "audio" THEN "placeholder-audio"
          ELSE "tint"
     ELSE "empty"

\* the call, up to the await of the preload
StillStart ==
  /\ path = "still"
  /\ still.pc = "idle"
  /\ still' = [still EXCEPT
       !.pc = "loading",
       !.loads = [t \in 1..Len(project.tracks) |->
                    IF t \in PreloadedTracks(project) THEN "pending" ELSE "none"]]
  /\ UNCHANGED <<mp4, node, path, storeVars, renderVars, calcVars>>

\* loadImageAsset settled with a throw that nothing catches
StillLoadSettled_uncaught(t, ok) ==
  /\ still.pc = "loading"
  /\ still.loads[t] = "pending"
  /\ still' = IF ok
              THEN [still EXCEPT
                      !.loads[t] = "ok",
                      !.loadedImages = @ \cup {project.tracks[t].assetId}]
              ELSE [still EXCEPT !.loads[t] = "failed", !.pc = "rejected", !.reason = "load"]
  /\ UNCHANGED <<mp4, node, path, storeVars, renderVars, calcVars>>

\* loadImageAsset of one preloaded track settled, inside its try/catch
StillLoadSettled(t, ok) ==
  /\ still.pc = "loading"
  /\ still.loads[t] = "pending"
  /\ still' = IF ok
              THEN [still EXCEPT
                      !.loads[t] = "ok",
                      !.loadedImages = @ \cup {project.tracks[t].assetId}]
              ELSE [still EXCEPT !.loads[t] = "failed"]
  /\ UNCHANGED <<mp4, node, path, storeVars, renderVars, calcVars>>

\* Promise.all resolved: the cell loop draws every cell, then toBlob is awaited
StillDraw ==
  /\ still.pc = "loading"
  /\ \A t \in DOMAIN still.loads : still.loads[t] # "pending"
  /\ still' = [still EXCEPT
       !.pc = "serializing",
       !.drawn = [index \in CellIndexes(project) |->
                    StillCell(project, index, still.loadedImages)]]
  /\ UNCHANGED <<mp4, node, path, storeVars, renderVars, calcVars>>

\* canvas.toBlob called back with a blob or with null
StillToBlob(hasBlob) ==
  /\ still.pc = "serializing"
  /\ still' = IF hasBlob
              THEN [still EXCEPT !.pc = "resolved"]
              ELSE [still EXCEPT !.pc = "rejected", !.reason = "serialization"]
  /\ UNCHANGED <<mp4, node, path, storeVars, renderVars, calcVars>>

NextStill ==
  \/ StillStart
  \/ \E t \in DOMAIN still.loads, ok \in BOOLEAN : StillLoadSettled(t, ok)
  \/ StillDraw
  \/ \E hasBlob \in BOOLEAN : StillToBlob(hasBlob)

----------------------------------------------------------------------------
(* exportProjectToMp4, the interactive path: src/lib/video-exporter.ts *)

\* frames the render loop draws before the duration has elapsed
MaxFrames == 2

\* a video element before loadVideoAsset has produced it
NoVideo == [play |-> "none", playing |-> FALSE, currentTime |-> 0]

\* what the media load of a cell awaits
MediaWanted(p, index) ==
  LET asset == CellAsset(p, index)
  IN IF IsSome(asset) /\ (Get(asset).type = "video" \/ IsPicture(Get(asset)))
     THEN "pending"
     ELSE "none"

\* drawCellFrame: what one frame draws into a cell; ready is whether the video
\* element has dimensions and current data
drawCellFrame(p, index, media, ready) ==
  LET track == getTrackByCell(p.tracks, index)
      asset == CellAsset(p, index)
      type  == IF IsSome(asset) THEN Get(asset).type ELSE "none"
  IN IF IsSome(track) /\ media = "video" /\ type = "video"
     THEN IF ready THEN "visual" ELSE "placeholder-video"
     ELSE IF IsSome(track) /\ media = "image" /\ type \in {"image", "logo"}
     THEN "visual"
     ELSE IF type = "audio" THEN "placeholder-audio"
     ELSE IF type = "video" THEN "placeholder-video"
     ELSE "empty"

\* state.video?.element of the cells that have one
playableVideos == {index \in DOMAIN mp4.media : mp4.media[index] = "video"}

\* the call, up to the await of the media loads
Mp4Start ==
  /\ path = "mp4"
  /\ mp4.pc = "idle"
  /\ mp4' = [mp4 EXCEPT
       !.pc = "loading",
       !.media = [index \in CellIndexes(project) |-> MediaWanted(project, index)],
       !.videos = [index \in CellIndexes(project) |-> NoVideo]]
  /\ UNCHANGED <<still, node, path, storeVars, renderVars, calcVars>>

\* loadVideoAsset / loadImageAsset of a cell settled, inside its try/catch
Mp4LoadSettled(index, ok) ==
  /\ mp4.pc = "loading"
  /\ mp4.media[index] = "pending"
  /\ mp4' = [mp4 EXCEPT
       !.media[index] =
          IF ~ok THEN "failed"
          ELSE IF Get(CellAsset(project, index)).type = "video" THEN "video" ELSE "image"]
  /\ UNCHANGED <<still, node, path, storeVars, renderVars, calcVars>>

\* the loads resolved: every playable video is rewound and play() is called
Mp4BeginPlayback ==
  /\ mp4.pc = "loading"
  /\ \A index \in DOMAIN mp4.media : mp4.media[index] # "pending"
  /\ mp4' = [mp4 EXCEPT
       !.pc = "starting",
       !.videos = [index \in DOMAIN mp4.videos |->
                     IF index \in playableVideos
                     THEN [play |-> "pending", playing |-> FALSE, currentTime |-> 0]
                     ELSE mp4.videos[index]]]
  /\ UNCHANGED <<still, node, path, storeVars, renderVars, calcVars>>

\* video.play() settled; a rejection (autoplay refused) is caught
Mp4PlaySettled(index, ok) ==
  /\ mp4.pc = "starting"
  /\ mp4.videos[index].play = "pending"
  /\ mp4' = [mp4 EXCEPT
       !.videos[index] = IF ok
                         THEN [play |-> "started", playing |-> TRUE, currentTime |-> 0]
                         ELSE [@ EXCEPT !.play = "failed"]]
  /\ UNCHANGED <<still, node, path, storeVars, renderVars, calcVars>>

\* captureStream, new MediaRecorder and recorder.start(): they succeed or throw
Mp4RecorderStart(ok) ==
  /\ mp4.pc = "starting"
  /\ \A index \in DOMAIN mp4.videos : mp4.videos[index].play # "pending"
  /\ mp4' = IF ok
            THEN [mp4 EXCEPT !.pc = "rendering", !.recorder = "recording"]
            ELSE [mp4 EXCEPT !.pc = "rejected", !.reason = "recorder-setup"]
  /\ UNCHANGED <<still, node, path, storeVars, renderVars, calcVars>>

\* one animation frame before the duration has elapsed: renderFrame draws every
\* cell; the playing videos have advanced
Mp4Frame(ready) ==
  /\ mp4.pc = "rendering"
  /\ mp4.framesRendered < MaxFrames
  /\ mp4' = [mp4 EXCEPT
       !.framesRendered = @ + 1,
       !.drawn = [index \in CellIndexes(project) |->
                    drawCellFrame(project, index, mp4.media[index], ready[index])],
       !.videos = [index \in DOMAIN mp4.videos |->
                     IF mp4.videos[index].playing
                     THEN [mp4.videos[index] EXCEPT !.currentTime = 1]
                     ELSE mp4.videos[index]]]
  /\ UNCHANGED <<still, node, path, storeVars, renderVars, calcVars>>

\* the recorder fires its error event: onerror rejects recordingPromise and the
\* recorder becomes inactive
Mp4RecorderError ==
  /\ mp4.pc = "rendering"
  /\ mp4.recorder = "recording"
  /\ mp4' = [mp4 EXCEPT !.recorder = "inactive", !.recording = "rejected"]
  /\ UNCHANGED <<still, node, path, storeVars, renderVars, calcVars>>

\* the duration has elapsed: the loop resolves, and a recorder that is not
\* inactive is stopped, whose stop event resolves recordingPromise
Mp4LoopEnd ==
  /\ mp4.pc = "rendering"
  /\ mp4.framesRendered >= 1
  /\ mp4' = IF mp4.recorder # "inactive"
            THEN [mp4 EXCEPT !.pc = "awaiting", !.recorder = "inactive",
                             !.recording = "resolved"]
            ELSE [mp4 EXCEPT !.pc = "awaiting"]
  /\ UNCHANGED <<still, node, path, storeVars, renderVars, calcVars>>

\* await recordingPromise: a rejection leaves the function at once; otherwise
\* every playable video is paused and rewound and the result is returned
Mp4AwaitSettled ==
  /\ mp4.pc = "awaiting"
  /\ mp4' = IF mp4.recording = "rejected"
            THEN [mp4 EXCEPT !.pc = "rejected", !.reason = "recorder-error"]
            ELSE [mp4 EXCEPT
                    !.pc = "resolved",
                    !.videos = [index \in DOMAIN mp4.videos |->
                                  IF index \in playableVideos
                                  THEN [mp4.videos[index] EXCEPT
                                          !.playing = FALSE, !.currentTime = 0]
                                  ELSE mp4.videos[index]]]
  /\ UNCHANGED <<still, node, path, storeVars, renderVars, calcVars>>

NextMp4 ==
  \/ Mp4Start
  \/ \E index \in DOMAIN mp4.media, ok \in BOOLEAN : Mp4LoadSettled(index, ok)
  \/ Mp4BeginPlayback
  \/ \E index \in DOMAIN mp4.videos, ok \in BOOLEAN : Mp4PlaySettled(index, ok)
  \/ \E ok \in BOOLEAN : Mp4RecorderStart(ok)
  \/ \E ready \in [CellIndexes(project) -> BOOLEAN] : Mp4Frame(ready)
  \/ Mp4RecorderError
  \/ Mp4LoopEnd
  \/ Mp4AwaitSettled

----------------------------------------------------------------------------
(* exportProjectToMp4Node, the batch path: src/lib/video-exporter.ts *)

\* cells: the indexes of the cells whose track resolves to a video asset
NodeCells(p) ==
  {index \in CellIndexes(p) :
     LET track == getTrackByCell(p.tracks, index)
         asset == CellAsset(p, index)
     IN IsSome(track) /\ IsSome(asset) /\ Get(asset).type = "video"}

\* the call, up to the await of the probes
NodeStart ==
  /\ path = "node"
  /\ node.pc = "idle"
  /\ LET cells == NodeCells(project)
     IN node' = IF cells = {}
                THEN [node EXCEPT !.pc = "rejected", !.reason = "no-video"]
                ELSE [node EXCEPT !.pc = "probing",
                                  !.cells = cells,
                                  !.probes = [index \in cells |-> "pending"]]
  /\ UNCHANGED <<still, mp4, path, storeVars, renderVars, calcVars>>

\* probeVideoMetadata settled with its failure swallowed
NodeProbeSettled_swallowed(index, ok) ==
  /\ node.pc = "probing"
  /\ node.probes[index] = "pending"
  /\ node' = [node EXCEPT !.probes[index] = IF ok THEN "ok" ELSE "failed"]
  /\ UNCHANGED <<still, mp4, path, storeVars, renderVars, calcVars>>

\* probeVideoMetadata of one cell settled; a failure is rethrown, which rejects
\* Promise.all and with it the export
NodeProbeSettled(index, ok) ==
  /\ node.pc = "probing"
  /\ node.probes[index] = "pending"
  /\ node' = IF ok
             THEN [node EXCEPT !.probes[index] = "ok"]
             ELSE [node EXCEPT !.probes[index] = "failed",
                               !.pc = "rejected", !.reason = "probe"]
  /\ UNCHANGED <<still, mp4, path, storeVars, renderVars, calcVars>>

\* Promise.all resolved; mkdtemp creates the working directory or fails
NodeMkdtemp(ok) ==
  /\ node.pc = "probing"
  /\ \A index \in DOMAIN node.probes : node.probes[index] # "pending"
  /\ node' = IF ok
             THEN [node EXCEPT !.pc = "spawning", !.tmpDir = "exists"]
             ELSE [node EXCEPT !.pc = "rejected", !.reason = "mkdtemp"]
  /\ UNCHANGED <<still, mp4, path, storeVars, renderVars, calcVars>>

\* leaving the try block without the finally clause on a throw
NodeLeaveTry_noFinally(outcome, reason) ==
  IF outcome = "rejected"
  THEN [node EXCEPT !.pc = "rejected", !.reason = reason]
  ELSE [node EXCEPT !.pc = "finally", !.outcome = outcome, !.reason = reason]

\* leaving the try block, by return or by throw: the finally clause runs next
NodeLeaveTry(outcome, reason) ==
  [node EXCEPT !.pc = "finally", !.outcome = outcome, !.reason = reason]

\* spawn("ffmpeg", args): the process starts, or spawn throws
NodeSpawn(ok) ==
  /\ node.pc = "spawning"
  /\ node' = IF ok
             THEN [node EXCEPT !.pc = "encoding", !.encoder = "running"]
             ELSE NodeLeaveTry("rejected", "spawn")
  /\ UNCHANGED <<still, mp4, path, storeVars, renderVars, calcVars>>

\* the subprocess emits error, or closes with exit code 0 or another code
NodeEncoderSettled(event) ==
  /\ node.pc = "encoding"
  /\ node' = IF event = "close-0"
             THEN [node EXCEPT !.pc = "reading", !.encoder = "exited"]
             ELSE [NodeLeaveTry("rejected", event) EXCEPT
                     !.encoder = IF event = "error" THEN "failed" ELSE "exited"]
  /\ UNCHANGED <<still, mp4, path, storeVars, renderVars, calcVars>>

\* readFile(outputPath) settled
NodeReadFile(ok) ==
  /\ node.pc = "reading"
  /\ node' = IF ok
             THEN NodeLeaveTry("resolved", "none")
             ELSE NodeLeaveTry("rejected", "read")
  /\ UNCHANGED <<still, mp4, path, storeVars, renderVars, calcVars>>

\* finally { await rm(tmpDir, {recursive: true, force: true}) }, then the
\* function settles as the try block left it
NodeFinally ==
  /\ node.pc = "finally"
  /\ node' = [node EXCEPT !.pc = node.outcome, !.tmpDir = "removed"]
  /\ UNCHANGED <<still, mp4, path, storeVars, renderVars, calcVars>>

EncoderEvents == {"error", "close-0", "close-nonzero"}

NextNode ==
  \/ NodeStart
  \/ \E index \in DOMAIN node.probes, ok \in BOOLEAN : NodeProbeSettled(index, ok)
  \/ \E ok \in BOOLEAN : NodeMkdtemp(ok)
  \/ \E ok \in BOOLEAN : NodeSpawn(ok)
  \/ \E event \in EncoderEvents : NodeEncoderSettled(event)
  \/ \E ok \in BOOLEAN : NodeReadFile(ok)
  \/ NodeFinally

ExportInit ==
  /\ project \in ExportProjects
  /\ history = <<>>
  /\ future = <<>>
  /\ activeCell = None
  /\ exportSettings = DEFAULT_EXPORT_SETTINGS
  /\ RenderIdle
  /\ path \in ExportPaths
  /\ still = StillIdle
  /\ mp4 = Mp4Idle
  /\ node = NodeIdle
  /\ CalcIdle

NextExport == NextStill \/ NextMp4 \/ NextNode

SpecExport == ExportInit /\ [][NextExport]_vars

----------------------------------------------------------------------------
(* The script src/scripts/generate-video-tile.ts and SpecGrids *)

\* the most clips readInputClips finds
MaxClips == 10

\* Math.floor(Math.sqrt(n)) of a whole number
CeilSqrt_floor(n) == CHOOSE c \in 0..n : c * c <= n /\ (c + 1) * (c + 1) > n

\* Math.ceil(Math.sqrt(n)) of a whole number
CeilSqrt(n) == CHOOSE c \in 0..n : c * c >= n /\ (c = 0 \/ (c - 1) * (c - 1) < n)

\* Math.ceil(a / b) of whole numbers, b > 0
CeilDiv(a, b) == (a + b - 1) \div b

\* The clips readInputClips returns: name and probed duration
ClipLists ==
  {[k \in 1..n |-> [fileName |-> k, duration |-> IF k = 2 THEN None ELSE Some(4)]] :
     n \in 1..MaxClips}

\* createProject(clips, defaultDurationSeconds): grid, assets and tracks
createProject(clips, defaultDurationSeconds) ==
  LET cols == CeilSqrt(Len(clips))
      rows == CeilDiv(Len(clips), cols)
  IN [ assets |-> [k \in 1..Len(clips) |->
                     [id |-> k, type |-> "video", duration |-> clips[k].duration]],
       grid   |-> [rows  |-> rows,
                   cols  |-> cols,
                   cells |-> [index \in 1..(rows * cols) |->
                                [row |-> (index - 1) \div cols,
                                 col |-> (index - 1) % cols]]],
       tracks |-> [k \in 1..Len(clips) |->
                     LET clipDuration == OrElse(clips[k].duration, defaultDurationSeconds)
                     IN [ id        |-> k,
                          assetId   |-> k,
                          cellIndex |-> k - 1,
                          in        |-> 0,
                          out       |-> clipDuration,
                          duration  |-> clipDuration ]] ]

\* durationCandidate of main: the first positive clip duration, else 5
durationCandidate(clips) ==
  LET known == FindIndex([k \in 1..Len(clips) |-> IsSome(clips[k].duration)])
  IN IF known = 0 THEN 5 ELSE Get(clips[known].duration)

\* main, from readInputClips to createProject
CliCreateProject(clips) ==
  /\ cli.pc = "idle"
  /\ cli' = [pc |-> "created", clips |-> clips,
             project |-> createProject(clips, durationCandidate(clips))]
  /\ UNCHANGED <<calc, loop, file, probe, storeVars, renderVars, exportVars>>

\* The (rows, cols) of the layout presets applied in SpecGrids
GridInputs == { <<2, 2>>, <<1, 4>>, <<3, 2>>, <<2, 3>> }

NextGrids ==
  \/ \E layout \in GridInputs : applyLayoutPreset(layout[1], layout[2])
  \/ \E clips \in ClipLists : CliCreateProject(clips)

SpecGrids == Init /\ [][NextGrids]_vars

----------------------------------------------------------------------------
(* calculateCanvasLayout: src/unnamed/part_009, and SpecLayout *)

\* Strings are sequences of characters.  The longest aspect-ratio string:
MaxAspectLen == 3

AspectAlphabet == {"4", "2", "0", "a", ":", "-"}

RECURSIVE StringsOfLength(_)
StringsOfLength(n) ==
  IF n = 0
  THEN {<<>>}
  ELSE {Append(str, char) : str \in StringsOfLength(n - 1), char \in AspectAlphabet}

AspectStrings == UNION {StringsOfLength(n) : n \in 0..MaxAspectLen}

\* const [w, h] = value.split(":").map(Number), with the 1:1 fallback
parseAspectRatio(value) ==
  LET pieces == split(value, ":")
      w == Number(pieces[1])
      h == IF Len(pieces) >= 2 THEN Number(pieces[2]) ELSE None
  IN IF ~IsSome(w) \/ ~IsSome(h) \/ h = Some(0)
     THEN [width |-> 1, height |-> 1]
     ELSE [width |-> Get(w), height |-> Get(h)]

\* Math.round of the quotient num / den, den > 0: floor(num/den + 1/2)
RoundDiv(num, den) == (2 * num + den) \div (2 * den)

\* the test that makes calculateCanvasLayout throw, with < in place of <=
TooSmall_strict(innerWidth, innerHeight) == innerWidth < 0 \/ innerHeight < 0

\* if (innerWidth <= 0 || innerHeight <= 0) throw
TooSmall(innerWidth, innerHeight) == innerWidth <= 0 \/ innerHeight <= 0

\* the cell extent with the gap taken once per column instead of once per gap
CellExtent_gapPerCell(inner, gap, count) == [num |-> inner - gap * count, den |-> count]

\* (inner - gap * (count - 1)) / count, kept as an exact quotient
CellExtent(inner, gap, count) == [num |-> inner - gap * (count - 1), den |-> count]

\* canvasWidth and canvasHeight of calculateCanvasLayout
CanvasSize(aspectRatio, baseSize) ==
  LET aspect             == parseAspectRatio(aspectRatio)
      clampedBaseSize    == Max2(1, baseSize)
      aspectMaxDimension == Max2(aspect.width, aspect.height)
      divisor            == Max2(aspectMaxDimension, 1)
  IN [ width  |-> RoundDiv(aspect.width * clampedBaseSize, divisor),
       height |-> RoundDiv(aspect.height * clampedBaseSize, divisor) ]

\* calculateCanvasLayout(composition, baseSize): None when it throws
calculateCanvasLayout(composition, baseSize) ==
  LET canvasWidth        == CanvasSize(composition.aspectRatio, baseSize).width
      canvasHeight       == CanvasSize(composition.aspectRatio, baseSize).height
      padding            == composition.padding
      gap                == composition.gap
      innerWidth         == canvasWidth - padding * 2
      innerHeight        == canvasHeight - padding * 2
  IN IF TooSmall(innerWidth, innerHeight)
     THEN None
     ELSE Some([ canvasWidth  |-> canvasWidth,
                 canvasHeight |-> canvasHeight,
                 padding      |-> padding,
                 gap          |-> gap,
                 innerWidth   |-> innerWidth,
                 innerHeight  |-> innerHeight,
                 cellWidth    |-> CellExtent(innerWidth, gap, composition.cols),
                 cellHeight   |-> CellExtent(innerHeight, gap, composition.rows) ])

\* The compositions and base sizes laid out
LayoutBaseSizes == {0, 8, 12}

LayoutPaddings == {0, 2, 4}

LayoutGaps == {0, 1}

LayoutGrids == { <<1, 2>>, <<2, 2>>, <<2, 3>> }

LayoutInputsOf(aspects) ==
  { [ op |-> "layout", done |-> FALSE, result |-> None, baseSize |-> baseSize,
      composition |-> [aspectRatio |-> aspectRatio, padding |-> padding, gap |-> gap,
                       rows |-> grid[1], cols |-> grid[2]] ] :
      aspectRatio \in aspects, baseSize \in LayoutBaseSizes,
      padding \in LayoutPaddings, gap \in LayoutGaps, grid \in LayoutGrids }

LayoutInit ==
  /\ StoreInit
  /\ RenderIdle
  /\ ExportIdle
  /\ cli = [pc |-> "idle"]
  /\ loop = [pc |-> "none"]
  /\ file = None
  /\ probe = [pc |-> "none"]
  /\ calc \in LayoutInputsOf(AspectStrings)

\* one call of calculateCanvasLayout
CalcLayout ==
  /\ calc.op = "layout"
  /\ ~calc.done
  /\ calc' = [calc EXCEPT !.done = TRUE,
                          !.result = calculateCanvasLayout(calc.composition, calc.baseSize)]
  /\ UNCHANGED <<cli, loop, file, probe, storeVars, renderVars, exportVars>>

SpecLayout == LayoutInit /\ [][CalcLayout]_vars

----------------------------------------------------------------------------
(* Timing resolution of the two video exporters, and SpecTiming *)

\* A JavaScript number: a finite whole number, or NaN
Num(v) == [finite |-> TRUE, value |-> v]

NaN == [finite |-> FALSE, value |-> 0]

\* typeof value === "number" && Number.isFinite(value) && value > 0, on an optional number
IsPositive(opt) == IsSome(opt) /\ Get(opt).finite /\ Get(opt).value > 0

\* a ?? b
Coalesce(a, b) == IF IsSome(a) THEN a ELSE b

\* the truthiness of an optional number: undefined, 0 and NaN are falsy
Truthy(opt) == IsSome(opt) /\ Get(opt).finite /\ Get(opt).value # 0

SetMax(values) == CHOOSE v \in values : \A w \in values : w <= v

\* pickFirstPositive(...values)
pickFirstPositive(values) ==
  LET first == FindIndex([i \in 1..Len(values) |-> IsPositive(values[i])])
  IN IF first = 0 THEN None ELSE values[first]

\* sanitizeFrameRate: undefined unless finite and positive, else within [1, 60]
sanitizeFrameRate(opt) ==
  IF ~IsPositive(opt) THEN None ELSE Some(Num(Min2(60, Max2(1, Get(opt).value))))

\* DEFAULT_OPTIONS
DefaultFps == 30

DefaultDurationSeconds == 3

\* What a populated cell contributes to the timing: the track's duration, the
\* asset's duration and fps, and what loading or probing the file measured
TimedCells ==
  {None} \cup
  { Some([trackDuration |-> trackDuration, assetDuration |-> assetDuration,
          assetFps |-> assetFps, measuredFps |-> measuredFps,
          measuredDuration |-> measuredDuration]) :
      trackDuration \in {Some(Num(2)), Some(Num(0))},
      assetDuration \in {None, Some(Num(8))},
      assetFps \in {None, Some(Num(24))},
      measuredFps \in {None, Some(Num(25))},
      measuredDuration \in {None, Some(Num(5))} }

\* options.fps and options.durationSeconds
FpsOptions == {None, Some(Num(24)), Some(Num(0)), Some(NaN)}

DurationOptions == {None, Some(Num(4)), Some(Num(0)), Some(NaN)}

\* the populated cells in grid order
Populated(cells) == SelectSeq(cells, LAMBDA cell : IsSome(cell))

\* exportProjectToMp4: durationSeconds and fps (the latter after the media loads)
mp4Timing(options, cells) ==
  LET tracks == Populated(cells)
      trackDurations ==
        {Get(d).value : d \in {dd \in {Coalesce(Get(tracks[i]).trackDuration,
                                                 Coalesce(Get(tracks[i]).assetDuration, Some(Num(0)))) :
                                         i \in 1..Len(tracks)} : IsPositive(dd)}}
      assetFps ==
        {Get(f).value : f \in {ff \in {Coalesce(Get(tracks[i]).assetFps, Some(Num(0))) :
                                         i \in 1..Len(tracks)} : IsPositive(ff)}}
      firstCell == cells[1]
      firstCellDuration ==
        IF IsSome(firstCell)
        THEN Coalesce(Get(firstCell).trackDuration, Get(firstCell).assetDuration)
        ELSE None
      derivedDuration == IF IsPositive(firstCellDuration) THEN firstCellDuration ELSE None
      durationSeconds ==
        Coalesce(options.durationSeconds,
          Coalesce(derivedDuration,
            IF trackDurations # {}
            THEN Some(Num(SetMax(trackDurations \cup {DefaultDurationSeconds})))
            ELSE Some(Num(DefaultDurationSeconds))))
      fallbackAssetFps ==
        IF assetFps # {}
        THEN Some(Num(Min2(60, SetMax(assetFps \cup {DefaultFps}))))
        ELSE None
      derivedFps ==
        sanitizeFrameRate(IF IsSome(firstCell) THEN Get(firstCell).assetFps ELSE None)
      fps ==
        Coalesce(options.fps,
          Coalesce(derivedFps,
            Coalesce(sanitizeFrameRate(fallbackAssetFps), Some(Num(DefaultFps)))))
      measuredFps ==
        sanitizeFrameRate(IF IsSome(firstCell) THEN Get(firstCell).measuredFps ELSE None)
  IN Some([ durationSeconds |-> durationSeconds,
            fps |-> IF ~Truthy(options.fps) /\ ~Truthy(derivedFps) /\ Truthy(measuredFps)
                    THEN measuredFps
                    ELSE fps ])

\* the first element that is a number (NaN included)
FirstNumber(values) ==
  LET first == FindIndex([i \in 1..Len(values) |-> IsSome(values[i])])
  IN IF first = 0 THEN None ELSE values[first]

\* exportProjectToMp4Node: fps and durationSeconds; None when it throws for
\* want of a video cell
nodeTiming(options, cells) ==
  LET videoCells == Populated(cells)
  IN IF videoCells = <<>>
     THEN None
     ELSE LET firstCell == Get(videoCells[1])
              fps ==
                Coalesce(
                  sanitizeFrameRate(pickFirstPositive(
                    << options.fps, firstCell.assetFps, firstCell.measuredFps,
                       FirstNumber([i \in 1..Len(videoCells) |->
                                      Coalesce(Get(videoCells[i]).measuredFps,
                                               Get(videoCells[i]).assetFps)]) >>)),
                  Some(Num(DefaultFps)))
              durationSeconds ==
                Coalesce(
                  pickFirstPositive(
                    << options.durationSeconds, firstCell.trackDuration,
                       firstCell.assetDuration, firstCell.measuredDuration,
                       FirstNumber([i \in 1..Len(videoCells) |->
                                      Get(videoCells[i]).measuredDuration]) >>),
                  Some(Num(DefaultDurationSeconds)))
          IN Some([durationSeconds |-> durationSeconds, fps |-> fps])

TimingInputs ==
  { [ op |-> "timing", done |-> FALSE, result |-> None, exporter |-> exporter,
      options |-> [fps |-> fps, durationSeconds |-> durationSeconds],
      cells |-> <<first, second>> ] :
      exporter \in {"mp4", "node"}, fps \in FpsOptions, durationSeconds \in DurationOptions,
      first \in TimedCells, second \in TimedCells }

TimingInit ==
  /\ StoreInit
  /\ RenderIdle
  /\ ExportIdle
  /\ cli = [pc |-> "idle"]
  /\ loop = [pc |-> "none"]
  /\ file = None
  /\ probe = [pc |-> "none"]
  /\ calc \in TimingInputs

\* the interactive exporter resolves its timing
CalcMp4Timing ==
  /\ calc.op = "timing"
  /\ calc.exporter = "mp4"
  /\ ~calc.done
  /\ calc' = [calc EXCEPT !.done = TRUE, !.result = mp4Timing(calc.options, calc.cells)]
  /\ UNCHANGED <<cli, loop, file, probe, storeVars, renderVars, exportVars>>

\* the batch exporter resolves its timing
CalcNodeTiming ==
  /\ calc.op = "timing"
  /\ calc.exporter = "node"
  /\ ~calc.done
  /\ calc' = [calc EXCEPT !.done = TRUE, !.result = nodeTiming(calc.options, calc.cells)]
  /\ UNCHANGED <<cli, loop, file, probe, storeVars, renderVars, exportVars>>

NextTiming == CalcMp4Timing \/ CalcNodeTiming

SpecTiming == TimingInit /\ [][NextTiming]_vars

----------------------------------------------------------------------------
(* The capture stream and render loop of exportProjectToMp4, and SpecLoop *)

\* the requested frame rates
LoopFpsInputs == {30, 60}

\* settings.frameRate read back from the canvas track, when it reports one
NegotiatedRates == {None, Some(Num(30)), Some(Num(60)), Some(Num(0))}

\* durationMs = Math.max(1, durationSeconds * 1000)
LoopDurationsMs == {50, 100}

\* the time of the first animation frame and the gaps between later ones
FirstFrameTimes == {100, 105}

FrameDeltas == {10, 20, 40}

LoopInputs ==
  { [ pc |-> "configuring", fps |-> fps, durationMs |-> durationMs, effectiveFps |-> fps,
      frameInterval |-> [num |-> 1000, den |-> 1], time |-> None, renderStartTime |-> 0,
      lastFrameTime |-> 0, framesRendered |-> 0, draws |-> <<>>, resultFps |-> None ] :
      fps \in LoopFpsInputs, durationMs \in LoopDurationsMs }

\* const frameInterval = 1000 / Math.max(fps, 1), kept as an exact quotient
frameInterval(fps) == [num |-> 1000, den |-> Max2(fps, 1)]

\* captureStream, getSettings and the start of the loop: effectiveFps is the
\* rate the track reports when finite and non-zero, else stays fps, and falls
\* back to the capture rate when not positive
LoopConfigure(negotiated) ==
  /\ loop.pc = "configuring"
  /\ LET captureFrameRate == Max2(1, loop.fps)
         readBack == IF Truthy(negotiated) THEN Get(negotiated).value ELSE loop.fps
         effectiveFps == IF readBack <= 0 THEN captureFrameRate ELSE readBack
     IN loop' = [loop EXCEPT !.pc = "scheduled",
                             !.effectiveFps = effectiveFps,
                             !.frameInterval = frameInterval(loop.fps)]
  /\ UNCHANGED <<cli, calc, file, probe, storeVars, renderVars, exportVars>>

\* a draw on every callback, whatever time has passed
DrawDue_always(time) == TRUE

\* if (time - lastFrameTime >= frameInterval), lastFrameTime being
\* time - frameInterval in the first callback
DrawDue(time) ==
  \/ loop.framesRendered = 0
  \/ (time - loop.lastFrameTime) * loop.frameInterval.den >= loop.frameInterval.num

\* the animation-frame callback step(time)
LoopStep(time) ==
  /\ loop.pc = "scheduled"
  /\ LET renderStartTime == IF loop.framesRendered = 0 THEN time ELSE loop.renderStartTime
         drawn == DrawDue(time)
     IN loop' = [loop EXCEPT
          !.time = Some(time),
          !.renderStartTime = renderStartTime,
          !.framesRendered = IF drawn THEN @ + 1 ELSE @,
          !.lastFrameTime = IF drawn THEN time ELSE @,
          !.draws = IF drawn THEN Append(@, time) ELSE @,
          !.pc = IF time - renderStartTime >= loop.durationMs THEN "ended" ELSE "scheduled"]
  /\ UNCHANGED <<cli, calc, file, probe, storeVars, renderVars, exportVars>>

\* the browser runs the pending callback: at some first time, later at a
\* strictly greater time
LoopCallback ==
  \E time \in IF IsSome(loop.time)
              THEN {Get(loop.time) + delta : delta \in FrameDeltas}
              ELSE FirstFrameTimes :
    LoopStep(time)

\* after the loop: the recording is awaited and the result reports effectiveFps
LoopReturn ==
  /\ loop.pc = "ended"
  /\ loop' = [loop EXCEPT !.pc = "returned", !.resultFps = Some(loop.effectiveFps)]
  /\ UNCHANGED <<cli, calc, file, probe, storeVars, renderVars, exportVars>>

LoopInit ==
  /\ StoreInit
  /\ RenderIdle
  /\ ExportIdle
  /\ cli = [pc |-> "idle"]
  /\ calc = [op |-> "none"]
  /\ loop \in LoopInputs
  /\ file = None
  /\ probe = [pc |-> "none"]

NextLoop ==
  \/ \E negotiated \in NegotiatedRates : LoopConfigure(negotiated)
  \/ LoopCallback
  \/ LoopReturn

\* animation frames keep coming
SpecLoop == LoopInit /\ [][NextLoop]_vars /\ WF_vars(NextLoop)

----------------------------------------------------------------------------
(* What the video exporters hand to the encoder, and SpecEncoder *)

\* MEDIA_TYPE_CANDIDATES, in the order of the array
MEDIA_TYPE_CANDIDATES ==
  << [mimeType |-> "video/mp4;codecs=avc1.42E01E,mp4a.40.2", extension |-> "mp4"],
     [mimeType |-> "video/webm;codecs=vp9", extension |-> "webm"],
     [mimeType |-> "video/webm;codecs=vp8", extension |-> "webm"],
     [mimeType |-> "video/webm", extension |-> "webm"] >>

CandidateIndexes == 1..Len(MEDIA_TYPE_CANDIDATES)

\* the smallest member of a non-empty set of integers
SetMin(S) == CHOOSE m \in S : \A x \in S : m <= x

\* the candidate the for-loop returns at, among the supported indexes
FirstSupported_last(supported) == SetMax(supported)

FirstSupported(supported) == SetMin(supported)

\* pickMediaType on a runtime: None when it throws
pickMediaType(runtime) ==
  IF ~runtime.hasMediaRecorder THEN None
  ELSE IF runtime.hasIsTypeSupported /\ runtime.supported # {}
       THEN Some(MEDIA_TYPE_CANDIDATES[FirstSupported(runtime.supported)])
       ELSE Some(MEDIA_TYPE_CANDIDATES[Len(MEDIA_TYPE_CANDIDATES)])

\* the runtimes: whether MediaRecorder exists, whether isTypeSupported is a
\* function, and the candidates it answers true for
MediaTypeInputs ==
  { [ op |-> "mediaType", done |-> FALSE, result |-> None,
      runtime |-> [hasMediaRecorder |-> hasMediaRecorder,
                   hasIsTypeSupported |-> hasIsTypeSupported,
                   supported |-> supported] ] :
      hasMediaRecorder \in BOOLEAN, hasIsTypeSupported \in BOOLEAN,
      supported \in SUBSET CandidateIndexes }

CalcMediaType ==
  /\ calc.op = "mediaType"
  /\ ~calc.done
  /\ calc' = [calc EXCEPT !.done = TRUE, !.result = pickMediaType(calc.runtime)]
  /\ UNCHANGED <<cli, loop, file, probe, storeVars, renderVars, exportVars>>

MIN_VIDEO_BITS_PER_SECOND == 1000000

MAX_VIDEO_BITS_PER_SECOND == 40000000

FallbackBitsPerCell == 5000000

\* sanitizeBitsPerSecond on an optional number; the values are whole, so
\* Math.round changes nothing
sanitizeBitsPerSecond(value) ==
  IF ~IsPositive(value) THEN None
  ELSE Some(Num(Min2(MAX_VIDEO_BITS_PER_SECOND, Max2(MIN_VIDEO_BITS_PER_SECOND, Get(value).value))))

\* the metadata bitrates that pass the filter of the second step
metaBitrates(metadata) ==
  { Get(metadata[i]).value : i \in { j \in 1..Len(metadata) : IsPositive(metadata[j]) } }

\* the fallback of the last step
FallbackBitrate(cellCount) == sanitizeBitsPerSecond(Some(Num(FallbackBitsPerCell * Max2(1, cellCount))))

\* videoBitsPerSecond of exportProjectToMp4Node; metadata holds the probed
\* bitrate of each video cell
nodeVideoBitsPerSecond(options, metadata) ==
  LET requested == IF IsSome(options.videoBitsPerSecond) THEN options.videoBitsPerSecond
                   ELSE IF Truthy(options.videoBitrateMbps)
                        THEN Some(Num(Get(options.videoBitrateMbps).value * 1000000))
                        ELSE metadata[1]
      first == sanitizeBitsPerSecond(requested)
      second == IF IsSome(first) \/ metaBitrates(metadata) = {} THEN first
                ELSE sanitizeBitsPerSecond(Some(Num(SetMax(metaBitrates(metadata)))))
  IN IF IsSome(second) THEN second ELSE FallbackBitrate(Len(metadata))

MaxVideoCells == 9

BitsPerSecondOptions == {None, Some(Num(0)), Some(Num(2000000)), Some(Num(50000000))}

BitrateMbpsOptions == {None, Some(Num(8))}

ProbedBitrates == {None, Some(Num(6000000))}

BitrateInputs ==
  { [ op |-> "bitrate", done |-> FALSE, result |-> None,
      options |-> [videoBitsPerSecond |-> videoBitsPerSecond, videoBitrateMbps |-> videoBitrateMbps],
      metadata |-> metadata ] :
      videoBitsPerSecond \in BitsPerSecondOptions, videoBitrateMbps \in BitrateMbpsOptions,
      metadata \in UNION { [1..n -> ProbedBitrates] : n \in 1..MaxVideoCells } }

CalcNodeBitrate ==
  /\ calc.op = "bitrate"
  /\ ~calc.done
  /\ calc' = [calc EXCEPT !.done = TRUE,
                          !.result = nodeVideoBitsPerSecond(calc.options, calc.metadata)]
  /\ UNCHANGED <<cli, loop, file, probe, storeVars, renderVars, exportVars>>

BASE_EXPORT_SIZE == 2048

MIN_CANVAS_DIMENSION == 256

MAX_CANVAS_DIMENSION == 8192

\* ensureEvenDimension on a whole number: Math.max(2, Math.round(value / 2) * 2)
ensureEvenDimension(value) == Max2(2, RoundDiv(value, 2) * 2)

\* the composition as calculateCanvasLayout reads it
LayoutOf(composition, baseSize) == calculateCanvasLayout(composition, baseSize)

\* the frame the ffmpeg filter graph of exportProjectToMp4Node produces from
\* the base layout: the size of the pad filter when there is padding, and
\* otherwise the extent of the xstack of the video cells
nodeCanvasSize(base, composition, videoCells) ==
  LET padding == Max2(0, base.padding)
      gap == Max2(0, base.gap)
      cellWidth == ensureEvenDimension(RoundDiv(base.cellWidth.num, base.cellWidth.den))
      cellHeight == ensureEvenDimension(RoundDiv(base.cellHeight.num, base.cellHeight.den))
      rawWidth == cellWidth * composition.cols + gap * Max2(0, composition.cols - 1)
      rawHeight == cellHeight * composition.rows + gap * Max2(0, composition.rows - 1)
      canvasWidth == ensureEvenDimension(rawWidth + padding * 2)
      canvasHeight == ensureEvenDimension(rawHeight + padding * 2)
      cells == GridCells(composition.rows, composition.cols)
      xs == { cells[i].col * (cellWidth + gap) : i \in videoCells }
      ys == { cells[i].row * (cellHeight + gap) : i \in videoCells }
  IN IF padding > 0
     THEN [width |-> canvasWidth, height |-> canvasHeight]
     ELSE [width |-> SetMax(xs) + cellWidth, height |-> SetMax(ys) + cellHeight]

\* the frame size of exportProjectToMp4Node; None when calculateCanvasLayout
\* throws
nodeFrameSize(composition, maxDimension, videoCells) ==
  LET baseLayout == LayoutOf(composition, OrElse(maxDimension, BASE_EXPORT_SIZE))
  IN IF ~IsSome(baseLayout) THEN None
     ELSE Some(nodeCanvasSize(Get(baseLayout), composition, videoCells))

\* maxDimension of exportProjectToMp4
mp4MaxDimension(candidate) ==
  IF IsSome(candidate) /\ Get(candidate) > 0
  THEN Min2(MAX_CANVAS_DIMENSION, Max2(MIN_CANVAS_DIMENSION, Get(candidate)))
  ELSE BASE_EXPORT_SIZE

RECURSIVE SumOver(_, _)
\* values[1] + ... + values[n]
SumOver(values, n) == IF n = 0 THEN 0 ELSE values[n] + SumOver(values, n - 1)

\* columnWidths / rowHeights of exportProjectToMp4 as numerators over count:
\* the base extent, raised to the largest media extent of a cell on the line
LineExtents(baseExtent, count, extentsOnLine) ==
  [line \in 1..count |->
     SetMax({baseExtent.num} \cup { extent * baseExtent.den : extent \in extentsOnLine[line] })]

\* canvas.width and canvas.height of exportProjectToMp4 from the base layout;
\* media gives the width and height of what each cell loaded, where it loaded
\* something
mp4CanvasSize(base, composition, media) ==
  LET cells == GridCells(composition.rows, composition.cols)
      loaded == { i \in 1..Len(cells) : IsSome(media[i]) }
      widthsOn == [col \in 1..composition.cols |->
                     { Get(media[i]).width : i \in { j \in loaded : cells[j].col = col - 1 } }]
      heightsOn == [row \in 1..composition.rows |->
                      { Get(media[i]).height : i \in { j \in loaded : cells[j].row = row - 1 } }]
      columnWidths == LineExtents(base.cellWidth, composition.cols, widthsOn)
      rowHeights == LineExtents(base.cellHeight, composition.rows, heightsOn)
      innerWidthNum == SumOver(columnWidths, composition.cols)
                       + base.gap * Max2(0, composition.cols - 1) * base.cellWidth.den
      innerHeightNum == SumOver(rowHeights, composition.rows)
                        + base.gap * Max2(0, composition.rows - 1) * base.cellHeight.den
  IN [ width  |-> RoundDiv(innerWidthNum + base.padding * 2 * base.cellWidth.den,
                           base.cellWidth.den),
       height |-> RoundDiv(innerHeightNum + base.padding * 2 * base.cellHeight.den,
                           base.cellHeight.den) ]

\* the canvas of exportProjectToMp4; None when calculateCanvasLayout throws
mp4FrameSize(composition, maxDimension, media) ==
  LET baseLayout == LayoutOf(composition, mp4MaxDimension(maxDimension))
  IN IF ~IsSome(baseLayout) THEN None
     ELSE Some(mp4CanvasSize(Get(baseLayout), composition, media))

\* the compositions exported, the maxDimension options, and the media sizes
FrameAspects == { <<"4", ":", "2">>, <<"2", ":", "2">> }

FrameCompositions ==
  { [aspectRatio |-> aspectRatio, padding |-> padding, gap |-> gap, rows |-> grid[1], cols |-> grid[2]] :
      aspectRatio \in FrameAspects, padding \in {0, 4}, gap \in {0, 1, 2},
      grid \in {<<1, 2>>, <<2, 2>>} }

MaxDimensionOptions == {None, Some(300), Some(1080)}

MediaSizes == {None, Some([width |-> 641, height |-> 360]), Some([width |-> 100, height |-> 100])}

FrameSizeInputs ==
  UNION {
    { [ op |-> "frameSize", done |-> FALSE, result |-> None, exporter |-> "node",
        composition |-> composition, maxDimension |-> maxDimension,
        videoCells |-> videoCells, media |-> <<>> ] :
        maxDimension \in MaxDimensionOptions,
        videoCells \in (SUBSET (1..(composition.rows * composition.cols))) \ {{}} } :
    composition \in FrameCompositions }
  \cup
  { [ op |-> "frameSize", done |-> FALSE, result |-> None, exporter |-> "mp4",
      composition |-> composition, maxDimension |-> maxDimension,
      videoCells |-> {}, media |-> <<first, second>> ] :
      composition \in FrameCompositions, maxDimension \in MaxDimensionOptions,
      first \in MediaSizes, second \in MediaSizes }

\* the media of the cells of the grid: the first two cells carry the inputs
MediaOfCells(composition, media) ==
  [i \in 1..(composition.rows * composition.cols) |-> IF i <= Len(media) THEN media[i] ELSE None]

CalcNodeFrameSize ==
  /\ calc.op = "frameSize"
  /\ calc.exporter = "node"
  /\ ~calc.done
  /\ calc' = [calc EXCEPT !.done = TRUE,
                          !.result = nodeFrameSize(calc.composition, calc.maxDimension, calc.videoCells)]
  /\ UNCHANGED <<cli, loop, file, probe, storeVars, renderVars, exportVars>>

CalcMp4FrameSize ==
  /\ calc.op = "frameSize"
  /\ calc.exporter = "mp4"
  /\ ~calc.done
  /\ calc' = [calc EXCEPT !.done = TRUE,
                          !.result = mp4FrameSize(calc.composition, calc.maxDimension,
                                                  MediaOfCells(calc.composition, calc.media))]
  /\ UNCHANGED <<cli, loop, file, probe, storeVars, renderVars, exportVars>>

EncoderInit ==
  /\ StoreInit
  /\ RenderIdle
  /\ ExportIdle
  /\ cli = [pc |-> "idle"]
  /\ loop = [pc |-> "none"]
  /\ file = None
  /\ probe = [pc |-> "none"]
  /\ calc \in MediaTypeInputs \cup BitrateInputs \cup FrameSizeInputs

NextEncoder == CalcMediaType \/ CalcNodeBitrate \/ CalcNodeFrameSize \/ CalcMp4FrameSize

SpecEncoder == EncoderInit /\ [][NextEncoder]_vars

----------------------------------------------------------------------------
(* The drawing calls of one frame: renderFrame and the draw sequence of
   exportProjectToImage, and SpecFrame *)

FrameGrids == {<<1, 2>>, <<2, 1>>, <<2, 2>>, <<2, 3>>}

\* style.borderWidth
BorderWidths == {None, Some(0), Some(2)}

\* (style.borderWidth ?? 0) > 0, and style.borderWidth && style.borderWidth > 0
HasBorder(style) == OrElse(style.borderWidth, 0) > 0

FrameInputs ==
  { [ op |-> "frame", exporter |-> exporter, cells |-> GridCells(grid[1], grid[2]),
      style |-> [borderWidth |-> borderWidth, backgroundColor |-> backgroundColor],
      pc |-> "background", next |-> 1, ops |-> <<>> ] :
      exporter \in {"still", "mp4"}, grid \in FrameGrids, borderWidth \in BorderWidths,
      backgroundColor \in BOOLEAN }

DrawOp(kind, index, cell) == [kind |-> kind, index |-> index, row |-> cell.row, col |-> cell.col]

NoCell == [row |-> -1, col |-> -1]

\* the canvas background, then the composition background inside the padding
FrameBackground ==
  /\ calc.op = "frame"
  /\ calc.pc = "background"
  /\ calc' = [calc EXCEPT
       !.pc = "cells",
       !.ops = <<DrawOp("canvas", -1, NoCell)>>
               \o (IF calc.style.backgroundColor THEN <<DrawOp("inner", -1, NoCell)>> ELSE <<>>)]
  /\ UNCHANGED <<cli, loop, file, probe, storeVars, renderVars, exportVars>>

\* the drawing calls of one cell: its fill, its content, and its border stroke
CellOps(index, cell, style) ==
  <<DrawOp("fill", index, cell), DrawOp("content", index, cell)>>
  \o (IF HasBorder(style) THEN <<DrawOp("stroke", index, cell)>> ELSE <<>>)

\* one iteration of cells.forEach / grid.cells.forEach
FrameCell ==
  /\ calc.op = "frame"
  /\ calc.pc = "cells"
  /\ calc.next <= Len(calc.cells)
  /\ calc' = [calc EXCEPT
       !.next = calc.next + 1,
       !.ops = calc.ops \o CellOps(calc.next - 1, calc.cells[calc.next], calc.style)]
  /\ UNCHANGED <<cli, loop, file, probe, storeVars, renderVars, exportVars>>

\* the outer border of the composition, after the loop over the cells
FrameOuterBorder ==
  /\ calc.op = "frame"
  /\ calc.pc = "cells"
  /\ calc.next > Len(calc.cells)
  /\ calc' = [calc EXCEPT
       !.pc = "done",
       !.ops = calc.ops \o (IF HasBorder(calc.style) THEN <<DrawOp("outer", -1, NoCell)>> ELSE <<>>)]
  /\ UNCHANGED <<cli, loop, file, probe, storeVars, renderVars, exportVars>>

FrameInit ==
  /\ StoreInit
  /\ RenderIdle
  /\ ExportIdle
  /\ cli = [pc |-> "idle"]
  /\ loop = [pc |-> "none"]
  /\ file = None
  /\ probe = [pc |-> "none"]
  /\ calc \in FrameInputs

NextFrame == FrameBackground \/ FrameCell \/ FrameOuterBorder

SpecFrame == FrameInit /\ [][NextFrame]_vars

----------------------------------------------------------------------------
\* detectViaFrameCallback: one run of the frame-callback probe on a video
\* element, with the timer, the frame callback and the caller's later
\* playback as separate steps.

\* Media times are counted in ticks of 1/TicksPerSecond second; a difference
\* of one tick is above the 0.0005 s threshold of step, a difference of zero
\* or a negative one (the video loops) is not.
TicksPerSecond == 120

MaxMediaTime == 4

MaxFrameCallbacks == 3

\* What the browser offers: requestVideoFrameCallback, cancelVideoFrameCallback,
\* and whether play() starts playback
ProbeRuntimes ==
  [hasRequest : BOOLEAN, hasCancel : BOOLEAN, playWorks : BOOLEAN]

\* The video element as loadVideoAsset hands it to the probe (paused at 0)
\* and the closure variables of detectViaFrameCallback before the call.
\* late records what the probe does to the element once its promise is settled.
ProbeStart(runtime) ==
  [pc |-> "start", runtime |-> runtime, cancelled |-> FALSE, lastTime |-> None,
   handle |-> 0, pending |-> {}, timer |-> "none", resolved |-> FALSE,
   result |-> None, paused |-> TRUE, currentTime |-> 0, late |-> {}]

\* What a call on the element adds to late
LateOps(p, ops) == IF p.resolved THEN p.late \cup ops ELSE p.late

\* resetPlayback: pause when playing, then seek to 0
resetPlayback(p) ==
  [p EXCEPT !.paused = TRUE,
            !.currentTime = 0,
            !.late = LateOps(p, (IF p.paused THEN {} ELSE {"pause"}) \cup {"seek"})]

\* cleanup of detectViaFrameCallback
cleanup(p) ==
  LET cancels == p.runtime.hasCancel /\ p.handle # 0
      marked == [p EXCEPT !.cancelled = TRUE,
                          !.pending = IF cancels THEN p.pending \ {p.handle}
                                      ELSE p.pending,
                          !.late = LateOps(p, IF cancels THEN {"cancel"} ELSE {})]
  IN resetPlayback(marked)

\* resolve of the promise: only the first call settles it
resolve(p, value) ==
  IF p.resolved THEN p
  ELSE [p EXCEPT !.resolved = TRUE, !.result = value, !.pc = "returned"]

\* scheduleNext
scheduleNext(p) ==
  IF p.cancelled THEN p
  ELSE [p EXCEPT !.handle = p.handle + 1, !.pending = p.pending \cup {p.handle + 1}]

\* normalizeFrameRate(1 / delta) for a delta of so many ticks
normalizeFrameRate(delta) ==
  sanitizeFrameRate(Some(Num(TicksPerSecond \div delta)))

\* The call: without requestVideoFrameCallback it returns undefined at once;
\* otherwise it arms the timer, registers the first callback and plays.
detectViaFrameCallback ==
  /\ probe.pc = "start"
  /\ probe' =
       IF ~probe.runtime.hasRequest
       THEN resolve(probe, None)
       ELSE LET armed == [probe EXCEPT !.timer = "armed", !.pc = "probing"]
                scheduled == scheduleNext(armed)
            IN [scheduled EXCEPT !.paused = ~probe.runtime.playWorks]
  /\ UNCHANGED <<cli, calc, loop, file, storeVars, renderVars, exportVars>>

\* The element plays on: its position advances and wraps at the end (loop)
timeupdate ==
  /\ probe.pc \in {"probing", "returned"}
  /\ ~probe.paused
  /\ probe' = [probe EXCEPT !.currentTime =
                 IF probe.currentTime = MaxMediaTime THEN 0 ELSE probe.currentTime + 1]
  /\ UNCHANGED <<cli, calc, loop, file, storeVars, renderVars, exportVars>>

\* step: the browser runs the registered frame callback for the frame at the
\* element's position
step(h) ==
  /\ h \in probe.pending
  /\ LET ran == [probe EXCEPT !.pending = probe.pending \ {h}]
         mediaTime == probe.currentTime
         delta == IF IsSome(probe.lastTime) THEN mediaTime - Get(probe.lastTime) ELSE 0
     IN IF probe.cancelled
        THEN probe' = ran
        ELSE IF delta > 0
             THEN probe' = resolve(cleanup(ran), normalizeFrameRate(delta))
             ELSE /\ probe.handle < MaxFrameCallbacks
                  /\ probe' = scheduleNext([ran EXCEPT !.lastTime = Some(mediaTime)])
  /\ UNCHANGED <<cli, calc, loop, file, storeVars, renderVars, exportVars>>

\* The 1000 ms timer fires: safeResolve(undefined)
ProbeTimeout ==
  /\ probe.timer = "armed"
  /\ probe' = resolve(cleanup([probe EXCEPT !.timer = "cleared"]), None)
  /\ UNCHANGED <<cli, calc, loop, file, storeVars, renderVars, exportVars>>

\* maybePlay by the caller once the probe has returned (the audio probe that
\* follows it, then the exporter)
maybePlay ==
  /\ probe.pc = "returned"
  /\ probe.paused
  /\ probe.runtime.playWorks
  /\ probe' = [probe EXCEPT !.paused = FALSE]
  /\ UNCHANGED <<cli, calc, loop, file, storeVars, renderVars, exportVars>>

ProbeInit ==
  /\ StoreInit
  /\ RenderIdle
  /\ ExportIdle
  /\ cli = [pc |-> "idle"]
  /\ loop = [pc |-> "none"]
  /\ calc = [op |-> "none"]
  /\ file = None
  /\ probe \in {ProbeStart(runtime) : runtime \in ProbeRuntimes}

NextProbe ==
  \/ detectViaFrameCallback
  \/ timeupdate
  \/ \E h \in 1..MaxFrameCallbacks : step(h)
  \/ ProbeTimeout
  \/ maybePlay

SpecProbe == ProbeInit /\ [][NextProbe]_vars

----------------------------------------------------------------------------
(* C1: no two tracks of the current project have the same cellIndex. *)
UniqueCellPerTrack ==
  \A i, j \in 1..Len(project.tracks) :
    project.tracks[i].cellIndex = project.tracks[j].cellIndex => i = j

\* C1 witness: the last edit shrank the grid and two tracks met in one cell,
\* of which the first was kept.
UniqueCellWitness ==
  /\ history # <<>>
  /\ LET prev == history[Len(history)]
     IN /\ prev.grid.rows * prev.grid.cols > project.grid.rows * project.grid.cols
        /\ Len(prev.tracks) = 2
        /\ Len(project.tracks) = 1
        /\ project.tracks[1].id = prev.tracks[1].id

(* C2: every track satisfies 0 <= in <= out <= duration. *)
TrimWithinDuration ==
  \A i \in 1..Len(project.tracks) :
    LET track == project.tracks[i]
    IN 0 <= track.in /\ track.in <= track.out /\ track.out <= track.duration

(* C3: under any interleaving of queueRender calls, every object URL that
   queueRender created is either the output URL of the stored render job or
   has been revoked. *)
SupersededUrlsRevoked ==
  \A url \in createdUrls :
    url[1] = "job" => (url \in revokedUrls \/ CurrentOutputUrl = Some(url))

Exporting == {call \in 1..Len(calls) : calls[call].pc = "exporting"}

(* C4: at most one export started by queueRender is running at any time. *)
OneExportInFlight == Cardinality(Exporting) <= 1

TerminalJob ==
  /\ IsSome(renderJob)
  /\ Get(renderJob).status \in {"succeeded", "failed"}

(* C5: once the stored job is succeeded or failed it does not change, except
   that a job with a newer id (a new queueRender) may replace it. *)
TerminalJobFrozen ==
  [][TerminalJob =>
       \/ renderJob' = renderJob
       \/ IsSome(renderJob') /\ Get(renderJob').id > Get(renderJob).id]_vars

(* C6: when exportProjectToMp4 has resolved, or has rejected on an error event
   of the recorder, every video element whose playback had started is paused
   and at time 0. *)
VideosStoppedOnExit ==
  (mp4.pc = "resolved" \/ (mp4.pc = "rejected" /\ mp4.reason = "recorder-error")) =>
    \A index \in DOMAIN mp4.videos :
      mp4.videos[index].play = "started" =>
        /\ ~mp4.videos[index].playing
        /\ mp4.videos[index].currentTime = 0

(* C7: when exportProjectToMp4Node has settled after the temporary directory
   was created, the directory has been removed, whatever the encoder and the
   read of the output did. *)
TmpDirRemovedOnSettle ==
  (node.pc \in {"resolved", "rejected"} /\ node.tmpDir # "none") =>
    node.tmpDir = "removed"

\* the export rejected on a failed read of the output, after the encoder exited with 0
TmpDirRemovedWitness ==
  /\ node.pc = "rejected"
  /\ node.reason = "read"
  /\ node.encoder = "exited"
  /\ node.tmpDir = "removed"

(* C8: once the probe of any video input has failed, the batch export is
   rejected for that reason, and neither the temporary directory nor the
   encoder process has been started. *)
ProbeFailureAborts ==
  (\E index \in DOMAIN node.probes : node.probes[index] = "failed") =>
    /\ node.pc = "rejected"
    /\ node.reason = "probe"
    /\ node.encoder = "none"
    /\ node.tmpDir = "none"

\* one input probed fine, another failed
ProbeFailureWitness ==
  /\ node.pc = "rejected"
  /\ \E index \in DOMAIN node.probes : node.probes[index] = "failed"
  /\ \E index \in DOMAIN node.probes : node.probes[index] = "ok"

\* the assets none of whose loads succeeded
FailedImages ==
  {project.tracks[t].assetId : t \in {u \in DOMAIN still.loads : still.loads[u] = "failed"}}
    \ {project.tracks[t].assetId : t \in {u \in DOMAIN still.loads : still.loads[u] = "ok"}}

(* C9: exportProjectToImage rejects only when serialization fails, never for
   an image load; after the preload every cell is drawn, the assets all of
   whose loads failed are not in the loaded-image map and their cells show no
   image. *)
StillToleratesLoadFailures ==
  /\ still.pc = "rejected" => still.reason = "serialization"
  /\ still.pc \in {"serializing", "resolved", "rejected"} =>
       /\ DOMAIN still.drawn = CellIndexes(project)
       /\ FailedImages \cap still.loadedImages = {}
       /\ \A index \in CellIndexes(project) :
            LET track == getTrackByCell(project.tracks, index)
            IN (IsSome(track) /\ Get(track).assetId \in FailedImages) =>
                 still.drawn[index] # "visual"

\* the export resolved although every image load failed
StillLoadFailureWitness ==
  /\ still.pc = "resolved"
  /\ FailedImages # {}
  /\ still.loadedImages = {}

\* the cell has a track whose assetId matches no asset of the project
Dangling(index) ==
  LET track == getTrackByCell(project.tracks, index)
  IN IsSome(track) /\ ~IsSome(assetById(project, Get(track).assetId))

\* the project with the cell's tracks taken away
WithoutTrack(index) ==
  [project EXCEPT !.tracks = SelectSeq(@, LAMBDA track : track.cellIndex # index)]

(* C10: in the still, interactive and batch exports, a cell whose track
   matches no asset gets no load and no probe, is drawn as the same exporter
   draws the cell of the project without that track, is not an input of the
   batch encoder, and the only rejections are those a project without the
   track has too. *)
DanglingTrackIsEmptyCell ==
  \A index \in CellIndexes(project) :
    Dangling(index) =>
      /\ \A t \in DOMAIN still.loads :
           project.tracks[t].cellIndex = index => still.loads[t] = "none"
      /\ index \in DOMAIN still.drawn =>
           still.drawn[index] = StillCell(WithoutTrack(index), index, still.loadedImages)
      /\ still.pc = "rejected" => still.reason = "serialization"
      /\ index \in DOMAIN mp4.media => mp4.media[index] = "none"
      /\ index \in DOMAIN mp4.drawn =>
           mp4.drawn[index] = drawCellFrame(WithoutTrack(index), index, "none", FALSE)
      /\ mp4.pc = "rejected" => mp4.reason \in {"recorder-setup", "recorder-error"}
      /\ index \notin node.cells
      /\ node.pc # "idle" => node.cells = NodeCells(WithoutTrack(index))
      /\ node.pc = "rejected" =>
           node.reason \in {"no-video", "probe", "mkdtemp", "spawn", "error",
                            "close-nonzero", "read"}

\* the interactive export resolved with a dangling cell drawn empty next to a
\* cell that shows its video
DanglingTrackWitness ==
  /\ mp4.pc = "resolved"
  /\ \E index \in CellIndexes(project) :
       Dangling(index) /\ mp4.drawn[index] = "empty"
  /\ \E index \in CellIndexes(project) : mp4.drawn[index] = "visual"

\* the gradient placeholder labelled with a media kind
PlaceholderOf(type) ==
  IF type = "audio" THEN "placeholder-audio"
  ELSE IF type = "video" THEN "placeholder-video"
  ELSE "placeholder-image"

(* C11: in the still export and in every frame of the interactive export, a
   cell whose asset is audio, or whose video or image asset failed to load, is
   drawn with the placeholder of its media kind. *)
PlaceholderForUnshownMedia ==
  /\ \A index \in DOMAIN still.drawn :
       LET asset == CellAsset(project, index)
       IN (IsSome(asset) /\ (Get(asset).type = "audio" \/ Get(asset).id \in FailedImages)) =>
            still.drawn[index] = PlaceholderOf(Get(asset).type)
  /\ \A index \in DOMAIN mp4.drawn :
       LET asset == CellAsset(project, index)
       IN (IsSome(asset) /\ (Get(asset).type = "audio" \/ mp4.media[index] = "failed")) =>
            mp4.drawn[index] = PlaceholderOf(Get(asset).type)

\* cells has rows*cols entries and the cell at index i is (i div cols, i mod cols)
RowMajorGrid(grid) ==
  /\ Len(grid.cells) = grid.rows * grid.cols
  /\ \A i \in 0..(Len(grid.cells) - 1) :
       /\ grid.cells[i + 1].row = i \div grid.cols
       /\ grid.cells[i + 1].col = i % grid.cols

(* C12: the grid of the store's project, initially and after every
   applyLayoutPreset, and the grid of the project the script's createProject
   builds, have rows*cols cells, the cell at index i being at row i div cols and
   column i mod cols. *)
GridCellsRowMajor ==
  /\ RowMajorGrid(project.grid)
  /\ cli.pc = "created" => RowMajorGrid(cli.project.grid)

\* a 3x2 preset was applied and the script built a 2x3 grid for five clips
GridCellsWitness ==
  /\ Len(history) >= 1
  /\ project.grid.rows = 3
  /\ project.grid.cols = 2
  /\ cli.pc = "created"
  /\ Len(cli.clips) = 5
  /\ cli.project.grid.cols = 3

(* C13: in every applyLayoutPreset step, a track whose cellIndex was at or
   beyond the new number of cells is not in the project afterwards. *)
ShrunkTracksDestroyed ==
  [][(history' = Append(history, project) /\ project'.grid # project.grid) =>
       \A i \in 1..Len(project.tracks) :
         project.tracks[i].cellIndex >= project'.grid.rows * project'.grid.cols =>
           \A j \in 1..Len(project'.tracks) : project'.tracks[j].id # project.tracks[i].id]_vars

LayoutDone == calc.op = "layout" /\ calc.done

\* the string is two positive numbers separated by one ':'
TwoPositiveNumbers(value) ==
  LET pieces == split(value, ":")
  IN /\ Len(pieces) = 2
     /\ \A i \in {1, 2} :
          /\ pieces[i] # <<>>
          /\ IsSome(Number(pieces[i]))
          /\ Get(Number(pieces[i])) > 0

(* C14: for an aspect-ratio string that is not two positive numbers separated
   by ':', calculateCanvasLayout lays out a square of the base size: it returns
   canvasWidth = canvasHeight = maxDimension, and throws only if that square is
   too small for the padding. *)
MalformedAspectIsSquare ==
  (LayoutDone /\ ~TwoPositiveNumbers(calc.composition.aspectRatio)) =>
    LET maxDimension == Max2(1, calc.baseSize)
    IN IF IsSome(calc.result)
       THEN /\ Get(calc.result).canvasWidth = maxDimension
            /\ Get(calc.result).canvasHeight = maxDimension
       ELSE maxDimension - 2 * calc.composition.padding <= 0

(* C15: calculateCanvasLayout throws exactly when canvasWidth - 2*padding <= 0
   or canvasHeight - 2*padding <= 0, and a returned layout has innerWidth =
   canvasWidth - 2*padding and innerHeight = canvasHeight - 2*padding. *)
LayoutFailsWhenTooSmall ==
  LayoutDone =>
    LET size    == CanvasSize(calc.composition.aspectRatio, calc.baseSize)
        padding == calc.composition.padding
    IN /\ ~IsSome(calc.result) <=>
            (size.width - 2 * padding <= 0 \/ size.height - 2 * padding <= 0)
       /\ IsSome(calc.result) =>
            /\ Get(calc.result).innerWidth = Get(calc.result).canvasWidth - 2 * padding
            /\ Get(calc.result).innerHeight = Get(calc.result).canvasHeight - 2 * padding

\* the call threw for an inner width of exactly 0
LayoutTooSmallWitness ==
  /\ LayoutDone
  /\ ~IsSome(calc.result)
  /\ CanvasSize(calc.composition.aspectRatio, calc.baseSize).width
       = 2 * calc.composition.padding
  /\ calc.composition.padding > 0

\* count cells of the extent and the gaps between them span exactly inner, and
\* the last cell, at origin padding + (count-1)*(extent+gap), ends at padding + inner
CellsFill(extent, count, gap, padding, inner) ==
  /\ extent.num * count + gap * (count - 1) * extent.den = inner * extent.den
  /\ padding * extent.den + (count - 1) * (extent.num + gap * extent.den) + extent.num
       = (padding + inner) * extent.den

(* C16: in every layout calculateCanvasLayout returns, cellWidth*cols +
   gap*(cols-1) = innerWidth and cellHeight*rows + gap*(rows-1) = innerHeight,
   and the last column and row end at the far edges of the inner rectangle. *)
CellsFillInnerRectangle ==
  (LayoutDone /\ IsSome(calc.result)) =>
    LET layout == Get(calc.result)
    IN /\ CellsFill(layout.cellWidth, calc.composition.cols, layout.gap,
                    layout.padding, layout.innerWidth)
       /\ CellsFill(layout.cellHeight, calc.composition.rows, layout.gap,
                    layout.padding, layout.innerHeight)

\* a layout of a non-square canvas with a gap, three columns and padding
CellsFillWitness ==
  /\ LayoutDone
  /\ IsSome(calc.result)
  /\ Get(calc.result).canvasWidth # Get(calc.result).canvasHeight
  /\ calc.composition.cols = 3
  /\ calc.composition.gap = 1
  /\ calc.composition.padding = 2

TimingDone == calc.op = "timing" /\ calc.done /\ IsSome(calc.result)

(* C17: the resolved fps and duration are the explicit option when a valid one
   is given; with no option, the fps of the first populated cell's asset and
   the duration of its track when those are valid; with no option and no
   populated cell, 30 fps and 3 s. *)
TimingPriority ==
  TimingDone =>
    LET populated == Populated(calc.cells)
        result    == Get(calc.result)
    IN /\ IsPositive(calc.options.fps) => result.fps = calc.options.fps
       /\ IsPositive(calc.options.durationSeconds) =>
            result.durationSeconds = calc.options.durationSeconds
       /\ (calc.options.fps = None /\ populated # <<>>
             /\ IsPositive(Get(populated[1]).assetFps)) =>
            result.fps = Get(populated[1]).assetFps
       /\ (calc.options.durationSeconds = None /\ populated # <<>>
             /\ IsPositive(Get(populated[1]).trackDuration)) =>
            result.durationSeconds = Get(populated[1]).trackDuration
       /\ (calc.options.fps = None /\ populated = <<>>) => result.fps = Some(Num(30))
       /\ (calc.options.durationSeconds = None /\ populated = <<>>) =>
            result.durationSeconds = Some(Num(3))

(* C18: the resolved fps and duration of either video exporter are finite and
   positive: an undefined, zero, negative or non-finite candidate, an explicit
   option included, never becomes the resolved value. *)
ResolvedTimingPositive ==
  TimingDone =>
    /\ IsPositive(Get(calc.result).fps)
    /\ IsPositive(Get(calc.result).durationSeconds)

LoopConfigured == loop.pc \in {"scheduled", "ended", "returned"}

(* C19: when the rate read back from the capture track differs from the
   requested fps, the frame interval of the render loop is 1000 / effective
   fps, and the result reports the effective fps. *)
PacingUsesEffectiveFps ==
  (LoopConfigured /\ loop.effectiveFps # loop.fps) =>
    /\ loop.frameInterval.num * loop.effectiveFps = 1000 * loop.frameInterval.den
    /\ loop.pc = "returned" => loop.resultFps = Some(loop.effectiveFps)

\* consecutive draws are at least one frame interval apart
DrawsSpaced ==
  \A i \in 1..(Len(loop.draws) - 1) :
    (loop.draws[i + 1] - loop.draws[i]) * loop.frameInterval.den >= loop.frameInterval.num

\* a callback is pending only while the duration has not elapsed at the last
\* callback, and the loop has ended only at a callback where it had
StopsAtDuration ==
  /\ (loop.pc = "scheduled" /\ IsSome(loop.time)) =>
       Get(loop.time) - loop.renderStartTime < loop.durationMs
  /\ loop.pc \in {"ended", "returned"} =>
       Get(loop.time) - loop.renderStartTime >= loop.durationMs

(* C20: the render loop never draws twice within one frame interval, schedules
   no callback after the first one at or past start + duration, and, animation
   frames continuing, ends. *)
RenderLoopPacedAndEnds ==
  /\ [](LoopConfigured => (DrawsSpaced /\ StopsAtDuration))
  /\ (loop.pc = "scheduled") ~> (loop.pc = "ended")

\* the loop ended after several draws and a last callback that drew nothing
RenderLoopWitness ==
  /\ loop.pc = "ended"
  /\ Len(loop.draws) >= 2
  /\ loop.lastFrameTime < Get(loop.time)

EncoderDone(op) == calc.op = op /\ calc.done

(* C21: pickMediaType returns the first candidate, in the order MP4/H.264+AAC,
   WebM/VP9, WebM/VP8, plain WebM, that the runtime reports as supported: no
   candidate is returned while one before it in the order is supported. *)
FirstSupportedWins ==
  (EncoderDone("mediaType") /\ IsSome(calc.result)) =>
    LET reported == IF calc.runtime.hasIsTypeSupported THEN calc.runtime.supported ELSE {}
    IN \A i \in CandidateIndexes :
         Get(calc.result) = MEDIA_TYPE_CANDIDATES[i] =>
           /\ \A j \in reported : i <= j
           /\ reported # {} => i \in reported

\* WebM/VP9 was picked while WebM/VP8 and plain WebM were supported as well
FirstSupportedWitness ==
  /\ EncoderDone("mediaType")
  /\ calc.runtime.hasIsTypeSupported
  /\ calc.runtime.supported = {2, 3, 4}
  /\ calc.result = Some(MEDIA_TYPE_CANDIDATES[2])

\* no bitrate option and no probed bitrate
NoBitrateSignal ==
  /\ calc.options.videoBitsPerSecond = None
  /\ calc.options.videoBitrateMbps = None
  /\ \A i \in 1..Len(calc.metadata) : calc.metadata[i] = None

(* C22: in the batch path, with no bitrate option and no probed bitrate, the
   resolved video bitrate is 5,000,000 * max(1, number of video cells) for
   every number of video cells. *)
FallbackBitrateIsFiveMbpsPerCell ==
  (EncoderDone("bitrate") /\ NoBitrateSignal) =>
    calc.result = Some(Num(5000000 * Max2(1, Len(calc.metadata))))

\* the positions in the frame's drawing calls of the calls of one kind
OpsOfKind(kinds) == { i \in 1..Len(calc.ops) : calc.ops[i].kind \in kinds }

\* the cell fills come in row-major order
FillsRowMajor ==
  \A i, j \in OpsOfKind({"fill"}) :
    i < j => \/ calc.ops[i].row < calc.ops[j].row
             \/ (calc.ops[i].row = calc.ops[j].row /\ calc.ops[i].col < calc.ops[j].col)

(* C23: within one rendered frame the cells are drawn in row-major order,
   every cell border stroke is drawn after all cell fills, and the outer
   composition border is drawn after all cells. *)
FrameDrawOrder ==
  (calc.op = "frame" /\ calc.pc = "done") =>
    /\ FillsRowMajor
    /\ \A s \in OpsOfKind({"stroke"}) : \A f \in OpsOfKind({"fill"}) : f < s
    /\ \A o \in OpsOfKind({"outer"}) : \A c \in OpsOfKind({"fill", "content", "stroke"}) : c < o

(* C24: hydrateFromJson applied to the JSON written by saveAsFile yields a
   project equal to the saved one, for every project state. *)
SaveLoadRoundTrip ==
  [][(IsSome(file') /\ file' # file) => (Get(file').valid /\ Parse(Get(file').value) = project)]_vars

\* a project with two tracks and an asset without duration was saved and
\* loaded back from the file
SaveLoadWitness ==
  /\ IsSome(file)
  /\ project = Parse(Get(file).value)
  /\ history = <<>>
  /\ \E i \in 1..Len(project.assets) : project.assets[i].duration = None
  /\ Len(project.tracks) >= 2

(* C25: for every video export, interactive and batch, the width and height of
   the frames handed to the encoder are even, in the batch path also when
   padding = 0. *)
FrameSizeEven ==
  (EncoderDone("frameSize") /\ IsSome(calc.result)) =>
    /\ Get(calc.result).width % 2 = 0
    /\ Get(calc.result).height % 2 = 0

(* C26: for n >= 1 clips the script's grid holds every clip and is near-square:
   cols is the least whole number whose square is at least n, rows*cols >= n,
   cols - rows is 0 or 1, and clip i is bound to cell i, so the clips have
   distinct cells inside the grid. *)
NearSquareGrid ==
  cli.pc = "created" =>
    LET n == Len(cli.clips)
        grid == cli.project.grid
        tracks == cli.project.tracks
    IN /\ grid.cols * grid.cols >= n
       /\ (grid.cols - 1) * (grid.cols - 1) < n
       /\ grid.rows * grid.cols >= n
       /\ (grid.rows - 1) * grid.cols < n
       /\ grid.cols - grid.rows \in {0, 1}
       /\ Len(tracks) = n
       /\ \A i \in 1..n :
            /\ tracks[i].cellIndex = i - 1
            /\ tracks[i].cellIndex < Len(grid.cells)
            /\ tracks[i].assetId = cli.project.assets[i].id
       /\ \A i, j \in 1..n : i # j => tracks[i].cellIndex # tracks[j].cellIndex

\* seven clips on a 3x3 grid, the last two cells left empty
NearSquareWitness ==
  /\ cli.pc = "created"
  /\ Len(cli.clips) = 7
  /\ cli.project.grid.rows = 3
  /\ cli.project.grid.cols = 3
  /\ cli.project.tracks[7].cellIndex = 6

(* C27: undo after a project edit restores the project exactly as it was
   before the edit, and a following redo restores exactly the edited project.
   Step by step: every step that lengthens the history puts the project it
   replaces on top of the history, and is either an edit, which empties the
   redo stack, or a redo, which installs the head of the redo stack; every
   step that shortens the history installs the project on top of it and puts
   the project it replaces at the head of the redo stack; no other step
   changes the project. *)
UndoRedoRoundTrip ==
  [][ /\ Len(history') > Len(history) =>
           /\ history' = Append(history, project)
           /\ \/ future' = <<>>
              \/ (future # <<>> /\ project' = Head(future) /\ future' = Tail(future))
      /\ Len(history') < Len(history) =>
           /\ project' = history[Len(history)]
           /\ history' = SubSeq(history, 1, Len(history) - 1)
           /\ future' = <<project>> \o future
      /\ Len(history') = Len(history) => project' = project ]_vars

\* two cells were assigned and the second assignment undone: the project has
\* one track again and the project with two tracks waits on the redo stack
UndoRedoWitness ==
  /\ Len(history) >= 2
  /\ Len(future) >= 1
  /\ Len(project.tracks) = 1
  /\ Len(Head(future).tracks) = 2
  /\ history[Len(history)].tracks = <<>>

(* C28: queueRender has no effect on the document: for every preset, target and
   outcome its steps leave the store's project, history, future and
   exportSettings unchanged, and the aspect ratio of the export settings is
   written only into the project queueRender holds. *)
QueueRenderLeavesDocument ==
  [][calls' # calls =>
       /\ project' = project
       /\ history' = history
       /\ future' = future
       /\ exportSettings' = exportSettings
       /\ Len(calls') > Len(calls) =>
            LET held == calls'[Len(calls')].project
            IN /\ [held EXCEPT !.aspectRatio = project.aspectRatio] = project
               /\ (exportSettings.aspectRatio = ProjectAspect \/ calls'[Len(calls')].job.target # "browser")
                    => held = project]_vars

\* an export on a project with the overriding ratio 4:2 succeeded while the
\* store's project still has the ratio 1:1
QueueRenderWitness ==
  \E call \in 1..Len(calls) :
    /\ calls[call].pc = "resolved"
    /\ calls[call].project.aspectRatio = <<"4", ":", "2">>
    /\ project.aspectRatio = <<"1", ":", "1">>
    /\ IsSome(renderJob)
    /\ Get(renderJob).status = "succeeded"

\* every queueRender call has returned or has had its export settle
AllSettled == \A call \in 1..Len(calls) : calls[call].pc \in {"returned", "resolved", "rejected"}

(* C29: when queueRender calls overlap, the renderJob in the store after all of
   them have settled is the job of the call started last: a late success or
   failure of an earlier call does not replace the newer job's record. *)
LatestCallOwnsJob ==
  (Len(calls) >= 2 /\ AllSettled) =>
    /\ IsSome(renderJob)
    /\ Get(renderJob).id = calls[Len(calls)].job.id

(* C30: once detectViaFrameCallback has resolved, the probe does nothing more
   to the video element: no pause, no seek to 0 and no callback cancellation
   comes from a leftover timer or a pending frame callback. *)
ProbeQuietAfterResolve ==
  (probe.pc # "none" /\ probe.resolved) => probe.late = {}

====
